---- MODULE Spec2Model ----
(***************************************************************************)
(* Rustball: dice (Die, Pool), the per-conversation roll history (Tray)    *)
(* and the command handlers that share the tray map (rolling.rs).          *)
(*                                                                         *)
(* Specifications over one set of variables:                               *)
(*   SpecDie   operations of a single Die (die.rs)                         *)
(*   SpecPool  construction of a Pool and its keeps and rerolls (pool.rs)  *)
(*   SpecLoops the recursive Explode and Reroll operators, step by step    *)
(*   SpecTarget  Target::apply (token_kinds.rs)                            *)
(*   SpecTokens  from_str, apply, pool() and value() of the roll tokens    *)
(*   SpecMath  the arithmetic evaluator (calculator.rs)                    *)
(*   SpecTray  the public operations of one Tray (tray.rs)                 *)
(*   Spec      the handlers of rolling.rs running as concurrent tasks      *)
(*   SpecFair  the handlers of one conversation, fairly scheduled          *)
(***************************************************************************)
EXTENDS Integers, Sequences, FiniteSets, TLC

\* ------------------------------------------------------------------------
\* Inputs: the command texts given to the Tray and to the handlers
\* ------------------------------------------------------------------------
OneDie == <<"1", "d", "2">>                                 \* 1d2
TwoDice == <<"2", "d", "2">>                                \* 2d2
TwoPools == <<"1", "d", "2", "+", "1", "d", "1">>           \* 1d2+1d1
NoDice == <<"0", "d", "2">>                                 \* 0d2
NoSides == <<"1", "d", "0">>                                \* 1d0
BigNumber == <<"2", "5", "6", "d", "2">>                    \* 256d2
BigSides == <<"1", "d", "2", "5", "6">>                     \* 1d256
LateError == <<"1", "d", "2", "+", "1", "d", "9", "9", "9">> \* 1d2+1d999
PureMath == <<"1", "+", "1">>                               \* 1+1
LoneD == <<"d", "2">>                                       \* d2

Commands ==
    {OneDie, TwoDice, TwoPools, NoDice, NoSides, BigNumber, BigSides,
     LateError, PureMath, LoneD}

\* ------------------------------------------------------------------------
\* Bounds of the model
\* ------------------------------------------------------------------------
MaxNumber == 3      \* largest dice count given to Pool::new in SpecPool
MaxSides == 3       \* largest side count given to Die::roll / Pool::new
MaxDice == 2        \* number of Die objects alive at once in SpecDie
MaxSet == 4         \* largest argument given to Die::set in SpecDie
MaxTokenDice == 2   \* largest pool given to an operator token (SpecLoops, SpecTarget)
MaxChain == 2       \* longest chain of Target tokens applied one to the next
MaxRpn == 5         \* longest postfix expression given to resolve_rpn
MaxGenerations == 3 \* most generations written into an Explode token

\* ------------------------------------------------------------------------
\* Program constants
\* ------------------------------------------------------------------------
U8Max == 255        \* u8::MAX, the width of Die.sides / Die.result / Pool.number
CAPACITY == 1       \* tray.rs: const CAPACITY

\* Option<T>: None is the empty sequence, Some(x) the sequence <<x>>
None == <<>>
Some(x) == <<x>>
Range(f) == {f[i] : i \in DOMAIN f}

VARIABLES
    dice,       \* SpecDie: the Die objects that exist, in creation order
    dieOp,      \* SpecDie: the last Die operation and how it ended
    pool,       \* SpecPool: the Pool last built (None before the first)
    poolOp,     \* SpecPool: the last Pool operation, its arguments and how it ended
    rolls,      \* SpecTray: Tray.rolls, oldest first
    trayOp,     \* SpecTray: the last Tray operation, its argument and its result
    lastOk,     \* SpecTray: the roll appended by the latest successful dice command
    trayMap,    \* Spec: the TrayMap, TrayId -> Tray
    dataWriter, \* Spec: the task holding ctx.data for writing, NoTask if none
    dataReaders,\* Spec: the tasks holding ctx.data for reading
    mapHolder,  \* Spec: the task holding the tray-map mutex, NoTask if none
    locked,     \* Spec: the TrayMap as the holder of the mutex found it
    pc,         \* Spec: where each task is in its handler
    req,        \* Spec: the command each task is running
    reply,      \* Spec: what each task has answered, or how it ended
    loop,       \* SpecLoops: the recursive operator that is running
    targetOp,   \* SpecTarget: the last Target::apply, its inputs and its result
    calc,       \* SpecMath: the last expression evaluated and its result
    tokenOp     \* SpecTokens: the token at hand and the last call on it

dieVars == <<dice, dieOp>>
poolVars == <<pool, poolOp>>
trayVars == <<rolls, trayOp, lastOk>>
handlerVars ==
    <<trayMap, dataWriter, dataReaders, mapHolder, locked, pc, req, reply>>
tokenVars == <<loop, targetOp, tokenOp>>
mathVars == <<calc>>
vars ==
    <<dice, dieOp, pool, poolOp, rolls, trayOp, lastOk, trayMap, dataWriter,
      dataReaders, mapHolder, locked, pc, req, reply, loop, targetOp, calc,
      tokenOp>>

\* ------------------------------------------------------------------------
\* die.rs
\* ------------------------------------------------------------------------

\* rng.gen_range(lo..=hi): any value of the inclusive range; the call panics
\* when the range is empty, which is the empty set of outcomes here.
GenRange(lo, hi) == lo..hi

\* Die::roll(sides): the set of dice the call may return ({} = panic)
Die_roll(sides) ==
    {[sides |-> sides, result |-> r] : r \in GenRange(1, sides)}

\* Die::reroll(&mut self)
Die_reroll(die) ==
    {[die EXCEPT !.result = r] : r \in GenRange(1, die.sides)}

\* Die::set(&mut self, value)
Die_set(die, value) == [die EXCEPT !.result = value]

\* Die::explode(&self) -> Die
Die_explode(die) == Die_roll(die.sides)

\* Die::equals / equal_or_greater / equal_or_less
Die_equals(die, value) == die.result = value
Die_equal_or_greater(die, target) == die.result >= target
Die_equal_or_less(die, target) == die.result <= target

\* ------------------------------------------------------------------------
\* pool.rs
\* ------------------------------------------------------------------------

\* Pool::new with the loop running over 0..=number
Pool_new_one_more(number, sides) ==
    {[number |-> number, sides |-> sides, dice |-> d] :
        d \in [1..(number + 1) -> Die_roll(sides)]}

\* Pool::new(number, sides): `number` calls of Die::roll(sides) pushed in
\* order.  With number = 0 no die is rolled; with number > 0 and an empty
\* set of Die::roll outcomes the first call panics ({}).
Pool_new(number, sides) ==
    {[number |-> number, sides |-> sides, dice |-> d] :
        d \in [1..number -> Die_roll(sides)]}

Pool_dice(p) == p.dice
Pool_number(p) == p.number
Pool_sides(p) == p.sides

\* fold(0, |sum, die| sum + die.result) over the dice ds: the sum of the
\* results; a long sequence is summed as its first half plus its second half
RECURSIVE SumResults(_)
SumResults(ds) ==
    IF Len(ds) = 0 THEN 0
    ELSE IF Len(ds) = 1 THEN ds[1].result
    ELSE LET half == Len(ds) \div 2
         IN  SumResults(SubSeq(ds, 1, half)) + SumResults(SubSeq(ds, half + 1, Len(ds)))

\* Pool::sum_sides with a u8 accumulator
Pool_sum_sides_u8(p) == SumResults(p.dice) % 256

\* Pool::sum_sides: fold over the dice with a u16 accumulator
Pool_sum_sides(p) == SumResults(p.dice) % 65536

\* Pool::total
Pool_total(p) == Pool_sum_sides(p)


\* ------------------------------------------------------------------------
\* Text: a string is a sequence of one-character strings
\* ------------------------------------------------------------------------
Digits == {"0", "1", "2", "3", "4", "5", "6", "7", "8", "9"}

DigitVal(c) ==
    CASE c = "0" -> 0 [] c = "1" -> 1 [] c = "2" -> 2 [] c = "3" -> 3
      [] c = "4" -> 4 [] c = "5" -> 5 [] c = "6" -> 6 [] c = "7" -> 7
      [] c = "8" -> 8 [] c = "9" -> 9

DigitChar(n) ==
    CASE n = 0 -> "0" [] n = 1 -> "1" [] n = 2 -> "2" [] n = 3 -> "3"
      [] n = 4 -> "4" [] n = 5 -> "5" [] n = 6 -> "6" [] n = 7 -> "7"
      [] n = 8 -> "8" [] n = 9 -> "9"

RECURSIVE DecimalValue(_)
DecimalValue(s) ==
    IF s = <<>> THEN 0
    ELSE 10 * DecimalValue(SubSeq(s, 1, Len(s) - 1)) + DigitVal(s[Len(s)])

ParseError == -1

\* str::parse::<u8>() on a non-empty string of digits: the value, or a
\* ParseIntError when it does not fit in a u8
ParseU8(s) ==
    IF DecimalValue(s) > U8Max THEN ParseError ELSE DecimalValue(s)

\* u16::to_string()
RECURSIVE U16ToString(_)
U16ToString(n) ==
    IF n < 10 THEN <<DigitChar(n)>>
    ELSE U16ToString(n \div 10) \o <<DigitChar(n % 10)>>

\* ------------------------------------------------------------------------
\* tray.rs: DICE_MATCH_STRING = (?P<number>\d+)d(?P<sides>\d+)
\* ------------------------------------------------------------------------
IsDigitAt(s, i) == i \in 1..Len(s) /\ s[i] \in Digits

\* the last position of the run of digits that starts at p (\d+ is greedy)
RECURSIVE RunEnd(_, _)
RunEnd(s, p) == IF IsDigitAt(s, p + 1) THEN RunEnd(s, p + 1) ELSE p

\* a match of the expression starts at position p
MatchesAt(s, p) ==
    /\ IsDigitAt(s, p)
    /\ RunEnd(s, p) + 1 <= Len(s)
    /\ s[RunEnd(s, p) + 1] = "d"
    /\ IsDigitAt(s, RunEnd(s, p) + 2)

NoMatch == [start |-> 0, end |-> 0, number |-> <<>>, sides |-> <<>>]

\* the leftmost match that starts at or after `from`, NoMatch when there is none
FindMatch(s, from) ==
    IF \E p \in from..Len(s) : MatchesAt(s, p)
    THEN LET p == CHOOSE q \in from..Len(s) :
                     /\ MatchesAt(s, q)
                     /\ \A r \in from..(q - 1) : ~MatchesAt(s, r)
             e == RunEnd(s, p)
         IN [start |-> p,
             end |-> RunEnd(s, e + 2),
             number |-> SubSeq(s, p, e),
             sides |-> SubSeq(s, e + 2, RunEnd(s, e + 2))]
    ELSE NoMatch

\* Regex::is_match
IsMatch(s) == FindMatch(s, 1) # NoMatch

\* Regex::captures_iter: the non-overlapping matches from left to right
RECURSIVE CapturesFrom(_, _)
CapturesFrom(s, from) ==
    IF FindMatch(s, from) = NoMatch THEN <<>>
    ELSE <<FindMatch(s, from)>> \o CapturesFrom(s, FindMatch(s, from).end + 1)

CapturesIter(s) == CapturesFrom(s, 1)

\* Regex::replace: the first match replaced by `rep`
RegexReplace(s, rep) ==
    IF FindMatch(s, 1) = NoMatch THEN s
    ELSE SubSeq(s, 1, FindMatch(s, 1).start - 1) \o rep
            \o SubSeq(s, FindMatch(s, 1).end + 1, Len(s))

\* ------------------------------------------------------------------------
\* Roll, as tray.rs uses it: Roll::new(command) and Roll::add_pool
\* ------------------------------------------------------------------------
Roll_new(command) == [command |-> command, pools |-> <<>>]

\* Roll::add_pool(number, sides): builds the pool, stores it, returns its
\* total; one outcome per possible pool
Roll_add_pool(roll, number, sides) ==
    {[roll |-> [roll EXCEPT !.pools = Append(@, p)], total |-> Pool_total(p)] :
        p \in Pool_new(number, sides)}

\* ------------------------------------------------------------------------
\* tray.rs: Tray
\* ------------------------------------------------------------------------
RECURSIVE Tray_evict_above(_)
\* the eviction loop with > in place of >=
Tray_evict_above(rs) ==
    IF Len(rs) > CAPACITY THEN Tray_evict_above(Tail(rs)) ELSE rs

\* while self.rolls.len() >= CAPACITY { self.rolls.pop_front(); }
RECURSIVE Tray_evict(_)
Tray_evict(rs) ==
    IF Len(rs) >= CAPACITY THEN Tray_evict(Tail(rs)) ELSE rs

\* the loop over captures_iter(roll_command) in add_roll_fom_command: the set
\* of ways it can end, as "ok" with the roll and the math command, as "err"
\* (a `?` on parse::<u8>) or as "panic" (Die::roll on an empty range)
RECURSIVE CaptureLoop(_, _, _)
CaptureLoop(caps, roll, math) ==
    IF caps = <<>> THEN {[status |-> "ok", roll |-> Some(roll), text |-> math]}
    ELSE LET number == ParseU8(Head(caps).number)
             sides == ParseU8(Head(caps).sides)
         IN IF number = ParseError \/ sides = ParseError
            THEN {[status |-> "err", roll |-> None, text |-> <<>>]}
            ELSE IF Roll_add_pool(roll, number, sides) = {}
            THEN {[status |-> "panic", roll |-> None, text |-> <<>>]}
            ELSE UNION {CaptureLoop(Tail(caps), a.roll,
                                    RegexReplace(math, U16ToString(a.total))) :
                          a \in Roll_add_pool(roll, number, sides)}

\* the outcome of an add: the rolls it leaves, how it ended and its text
AddOutcome(evicted, o) ==
    [rolls |-> IF o.status = "ok" THEN Append(evicted, o.roll[1]) ELSE evicted,
     status |-> o.status,
     text |-> o.text,
     added |-> o.roll]

\* Tray::add_roll_fom_command
Tray_add_roll_fom_command(rs, roll_command) ==
    {AddOutcome(Tray_evict(rs), o) :
        o \in CaptureLoop(CapturesIter(roll_command), Roll_new(roll_command),
                          roll_command)}

\* Roll::from_str: the dice pipeline on the whole command
Roll_from_str(roll_command) ==
    CaptureLoop(CapturesIter(roll_command), Roll_new(roll_command), <<>>)

\* Tray::add_roll_from_string
Tray_add_roll_from_string(rs, roll_command) ==
    {AddOutcome(Tray_evict(rs), o) : o \in Roll_from_str(roll_command)}

\* calculator::evaluate(roll_command): a result, or an error that
\* process_roll_command turns into a failure text
Calculator_evaluate(roll_command) ==
    {<<"c", "a", "l", "c">>, <<"f", "a", "i", "l">>}

\* process_roll_command without the is_match test
Tray_process_roll_command_unchecked(rs, roll_command) ==
    Tray_add_roll_fom_command(rs, roll_command)

\* Tray::process_roll_command
Tray_process_roll_command(rs, roll_command) ==
    IF ~IsMatch(roll_command)
    THEN {[rolls |-> rs, status |-> "ok", text |-> t, added |-> None] :
            t \in Calculator_evaluate(roll_command)}
    ELSE Tray_add_roll_fom_command(rs, roll_command)

RetrieveError == [status |-> "retrieve_error", roll |-> None]

\* Tray::get_newest_roll
Tray_get_newest_roll(rs) ==
    IF rs = <<>> THEN RetrieveError
    ELSE [status |-> "ok", roll |-> Some(rs[Len(rs)])]


\* ------------------------------------------------------------------------
\* SpecTray: any sequence of the public operations of one Tray
\* ------------------------------------------------------------------------
NoTrayOp ==
    [op |-> "none", cmd |-> <<>>, status |-> "ok", text |-> <<>>,
     added |-> None, got |-> None, before |-> <<>>]

\* Tray::new()
InitTray ==
    /\ rolls = <<>>
    /\ trayOp = NoTrayOp
    /\ lastOk = None

TrayStep(op, cmd, o) ==
    /\ rolls' = o.rolls
    /\ trayOp' = [op |-> op, cmd |-> cmd, status |-> o.status, text |-> o.text,
                  added |-> o.added, got |-> None, before |-> rolls]
    /\ lastOk' = IF o.added # None THEN o.added ELSE lastOk

\* tray.process_roll_command(cmd)
ProcessRollCommand(cmd) ==
    /\ UNCHANGED <<dieVars, poolVars, handlerVars, tokenVars, mathVars>>
    /\ \E o \in Tray_process_roll_command(rolls, cmd) : TrayStep("process", cmd, o)

\* tray.add_roll_from_string(cmd)
AddRollFromString(cmd) ==
    /\ UNCHANGED <<dieVars, poolVars, handlerVars, tokenVars, mathVars>>
    /\ \E o \in Tray_add_roll_from_string(rolls, cmd) : TrayStep("add_string", cmd, o)

\* tray.get_newest_roll()
GetNewestRoll ==
    /\ UNCHANGED <<dieVars, poolVars, handlerVars, tokenVars, mathVars>>
    /\ rolls' = rolls
    /\ trayOp' = [op |-> "get", cmd |-> <<>>,
                  status |-> Tray_get_newest_roll(rolls).status, text |-> <<>>,
                  added |-> None, got |-> Tray_get_newest_roll(rolls).roll,
                  before |-> rolls]
    /\ lastOk' = lastOk

\* ------------------------------------------------------------------------
\* SpecDie: any sequence of roll / reroll / set / explode
\* ------------------------------------------------------------------------
NoDieOp == [op |-> "none", arg |-> 0, status |-> "ok"]

InitDie ==
    /\ dice = <<>>
    /\ dieOp = NoDieOp

\* let die = Die::roll(sides)
DieRoll(sides) ==
    /\ UNCHANGED <<poolVars, trayVars, handlerVars, tokenVars, mathVars>>
    /\ Len(dice) < MaxDice
    /\ IF Die_roll(sides) = {}
       THEN /\ dice' = dice
            /\ dieOp' = [op |-> "roll", arg |-> sides, status |-> "panic"]
       ELSE /\ \E d \in Die_roll(sides) : dice' = Append(dice, d)
            /\ dieOp' = [op |-> "roll", arg |-> sides, status |-> "ok"]

\* dice[i].reroll()
DieReroll(i) ==
    /\ UNCHANGED <<poolVars, trayVars, handlerVars, tokenVars, mathVars>>
    /\ i \in 1..Len(dice)
    /\ \E d \in Die_reroll(dice[i]) : dice' = [dice EXCEPT ![i] = d]
    /\ dieOp' = [op |-> "reroll", arg |-> i, status |-> "ok"]

\* dice[i].set(value)
DieSet(i, value) ==
    /\ UNCHANGED <<poolVars, trayVars, handlerVars, tokenVars, mathVars>>
    /\ i \in 1..Len(dice)
    /\ dice' = [dice EXCEPT ![i] = Die_set(dice[i], value)]
    /\ dieOp' = [op |-> "set", arg |-> value, status |-> "ok"]

\* let new = dice[i].explode()
DieExplode(i) ==
    /\ UNCHANGED <<poolVars, trayVars, handlerVars, tokenVars, mathVars>>
    /\ i \in 1..Len(dice)
    /\ Len(dice) < MaxDice
    /\ \E d \in Die_explode(dice[i]) : dice' = Append(dice, d)
    /\ dieOp' = [op |-> "explode", arg |-> i, status |-> "ok"]

\* a Die goes out of scope
DieDrop ==
    /\ UNCHANGED <<poolVars, trayVars, handlerVars, tokenVars, mathVars>>
    /\ dice # <<>>
    /\ dice' = Tail(dice)
    /\ dieOp' = [op |-> "drop", arg |-> 0, status |-> "ok"]

\* ------------------------------------------------------------------------
\* SpecPool: Pool::new on every pair of arguments within the bounds
\* ------------------------------------------------------------------------
\* the last operation on the pool: its name, the arguments of Pool::new, the
\* argument of the other operations, the pool it was applied to, its outcome
NoPoolOp ==
    [op |-> "none", number |-> 0, sides |-> 0, arg |-> 0, before |-> None,
     status |-> "ok"]

InitPool ==
    /\ pool = None
    /\ poolOp = NoPoolOp

\* let pool = Pool::new(number, sides)
PoolNew(number, sides) ==
    /\ UNCHANGED <<dieVars, trayVars, handlerVars, tokenVars, mathVars>>
    /\ IF Pool_new(number, sides) = {}
       THEN /\ pool' = pool
            /\ poolOp' = [NoPoolOp EXCEPT !.op = "new", !.number = number,
                                          !.sides = sides, !.status = "panic"]
       ELSE /\ \E p \in Pool_new(number, sides) : pool' = Some(p)
            /\ poolOp' = [NoPoolOp EXCEPT !.op = "new", !.number = number,
                                          !.sides = sides]

\* ------------------------------------------------------------------------
\* pool.rs: rerolling, and the Tray operations of the handlers
\* ------------------------------------------------------------------------

\* Pool::reroll_all: every die of the pool rerolled in place
Pool_reroll_all(p) ==
    {[p EXCEPT !.dice = d] :
        d \in {f \in [1..Len(p.dice) -> UNION {Die_reroll(x) : x \in Range(p.dice)}] :
                 \A i \in 1..Len(p.dice) : f[i] \in Die_reroll(p.dice[i])}}

\* dice_sorted.sort_unstable(): ascending by result (the dice of one pool
\* share their sides, and equal dice are indistinguishable)
SortUnstable(ds) ==
    LET n == Len(ds)
        faces == {ds[j].result : j \in 1..n}
        Below(v) == Cardinality({j \in 1..n : ds[j].result < v})
        UpTo(v) == Cardinality({j \in 1..n : ds[j].result <= v})
        FaceAt(k) == CHOOSE v \in faces : Below(v) < k /\ k <= UpTo(v)
    IN  IF n = 0 THEN <<>>
        ELSE [k \in 1..n |->
                ds[CHOOSE j \in 1..n : ds[j].result = FaceAt(k)]]

\* dice_sorted[from..]: the outcomes of the slice ({} = panic, start beyond
\* the length)
SliceFrom(ds, from) ==
    IF from > Len(ds) THEN {} ELSE {SubSeq(ds, from + 1, Len(ds))}

\* dice_sorted[..to]: the outcomes of the slice ({} = panic, end beyond the
\* length)
SliceTo(ds, to) ==
    IF to > Len(ds) THEN {} ELSE {SubSeq(ds, 1, to)}

\* Pool::keep_highest slicing from `argument` on
Pool_keep_highest_drop(p, argument) ==
    LET dice_sorted == SortUnstable(p.dice)
        min_index == IF argument > p.number THEN 0 ELSE argument
    IN  {[p EXCEPT !.dice = d] : d \in SliceFrom(dice_sorted, min_index)}

\* Pool::keep_highest(&self, argument) -> Pool; the index is computed from
\* the recorded number, not from the count of dice
Pool_keep_highest(p, argument) ==
    LET dice_sorted == SortUnstable(p.dice)
        min_index == IF argument > p.number THEN 0 ELSE p.number - argument
    IN  {[p EXCEPT !.dice = d] : d \in SliceFrom(dice_sorted, min_index)}

\* Pool::keep_lowest(&self, argument) -> Pool
Pool_keep_lowest(p, argument) ==
    LET dice_sorted == SortUnstable(p.dice)
        max_index == IF argument > p.number THEN p.number ELSE argument
    IN  {[p EXCEPT !.dice = d] : d \in SliceTo(dice_sorted, max_index)}

\* the dice of pool p with those at the positions `where` rerolled, the
\* others as they are
RerollWhere(p, where) ==
    {[p EXCEPT !.dice = d] :
        d \in {f \in [1..Len(p.dice) ->
                        Range(p.dice) \cup UNION {Die_reroll(x) : x \in Range(p.dice)}] :
                 \A i \in 1..Len(p.dice) :
                    IF i \in where THEN f[i] \in Die_reroll(p.dice[i])
                                        ELSE f[i] = p.dice[i]}}

\* Pool::reroll_n with the filter of reroll_n_or_less
Pool_reroll_n_below(p, n) ==
    RerollWhere(p, {i \in 1..Len(p.dice) : Die_equal_or_less(p.dice[i], n)})

\* Pool::reroll_n(&mut self, n): one pass over the dice that equal n
Pool_reroll_n(p, n) ==
    RerollWhere(p, {i \in 1..Len(p.dice) : Die_equals(p.dice[i], n)})

\* n pushes of the same die
RECURSIVE Repeat(_, _)
Repeat(die, n) ==
    IF n <= 0 THEN <<>>
    ELSE IF n = 1 THEN <<die>>
    ELSE Repeat(die, n \div 2) \o Repeat(die, n - n \div 2)

\* Pool::new(U8Max, U8Max) with every die landing on the same face
FullPool(face) ==
    [number |-> U8Max, sides |-> U8Max,
     dice |-> Repeat([sides |-> U8Max, result |-> face], U8Max)]

\* the arguments given to the operations of a pool
PoolArguments == 0..(MaxNumber + 1) \cup {U8Max}

\* one operation on the pool: its outcomes are `outs` ({} = panic), the pool
\* keeps its value when the operation panics
PoolStep(op, arg, outs) ==
    /\ UNCHANGED <<dieVars, trayVars, handlerVars, tokenVars, mathVars>>
    /\ IF outs = {}
       THEN /\ pool' = pool
            /\ poolOp' = [NoPoolOp EXCEPT !.op = op, !.arg = arg, !.before = pool,
                                          !.status = "panic"]
       ELSE /\ \E p \in outs : pool' = Some(p)
            /\ poolOp' = [NoPoolOp EXCEPT !.op = op, !.arg = arg, !.before = pool]

\* let pool = Pool::new(255, 255), all dice alike
PoolNewFull(face) ==
    /\ pool' = Some(FullPool(face))
    /\ poolOp' = [NoPoolOp EXCEPT !.op = "new", !.number = U8Max, !.sides = U8Max]
    /\ UNCHANGED <<dieVars, trayVars, handlerVars, tokenVars, mathVars>>

\* let pool = pool.keep_highest(argument)
PoolKeepHighest(argument) ==
    /\ pool # None
    /\ PoolStep("keep_highest", argument, Pool_keep_highest(pool[1], argument))

\* let pool = pool.keep_lowest(argument)
PoolKeepLowest(argument) ==
    /\ pool # None
    /\ PoolStep("keep_lowest", argument, Pool_keep_lowest(pool[1], argument))

\* pool.reroll_all(), on the pools small enough to list the outcomes of
PoolRerollAll ==
    /\ pool # None
    /\ Len(pool[1].dice) <= MaxNumber
    /\ pool[1].sides <= MaxSides
    /\ PoolStep("reroll_all", 0, Pool_reroll_all(pool[1]))

\* pool.reroll_n(n), on the pools small enough to list the outcomes of
PoolRerollN(n) ==
    /\ pool # None
    /\ Len(pool[1].dice) <= MaxNumber
    /\ pool[1].sides <= MaxSides
    /\ PoolStep("reroll_n", n, Pool_reroll_n(pool[1], n))

\* Display for Pool: the results written between the brackets; the first
\* is read as self.dice[0], out of bounds for a pool of no dice ({} = panic)
Pool_fmt(p) ==
    IF Len(p.dice) = 0 THEN {}
    ELSE {[i \in 1..Len(p.dice) |-> p.dice[i].result]}

\* format!("{}", pool)
PoolFmt ==
    /\ pool # None
    /\ pool' = pool
    /\ poolOp' = [NoPoolOp EXCEPT
                    !.op = "fmt", !.before = pool,
                    !.status = IF Pool_fmt(pool[1]) = {} THEN "panic" ELSE "ok"]
    /\ UNCHANGED <<dieVars, trayVars, handlerVars, tokenVars, mathVars>>

\* the latest roll resolved again: same command, every pool rerolled
Roll_reroll_all(roll) ==
    {[roll EXCEPT !.pools = ps] :
        ps \in {f \in [1..Len(roll.pools) ->
                         UNION {Pool_reroll_all(x) : x \in Range(roll.pools)}] :
                  \A i \in 1..Len(roll.pools) : f[i] \in Pool_reroll_all(roll.pools[i])}}

\* Tray::reroll_latest: replaces the newest roll in place, or fails when the
\* history is empty
Tray_reroll_latest(rs) ==
    IF rs = <<>>
    THEN {[rolls |-> rs, status |-> "nothing_to_reroll", roll |-> None]}
    ELSE {[rolls |-> [rs EXCEPT ![Len(rs)] = r], status |-> "ok", roll |-> Some(r)] :
            r \in Roll_reroll_all(rs[Len(rs)])}

\* Tray::rolls
Tray_rolls(tray) == tray.rolls

\* Tray::new
Tray_new == [rolls |-> <<>>]

\* ------------------------------------------------------------------------
\* rolling.rs: messages, conversation identities, the tray map
\* ------------------------------------------------------------------------
\* the tasks the framework runs handlers on: two commands can be in flight
Tasks == {"t1", "t2"}
NoTask == "none"

\* the messages the handlers are called with: a private message in channel 7
\* and messages in two channels of guild 7
DirectMessage == [is_private |-> TRUE, channel_id |-> 7, guild_id |-> None]
GuildMessage == [is_private |-> FALSE, channel_id |-> 2, guild_id |-> Some(7)]
OtherChannel == [is_private |-> FALSE, channel_id |-> 3, guild_id |-> Some(7)]

Messages == {DirectMessage, GuildMessage, OtherChannel}

\* the argument texts of the roll command, as typed
Shouted == <<"1", "D", "2", "!", "O">>                      \* 1D2!O

Texts == {Shouted, PureMath, BigNumber, NoSides}

\* cfg.comment_separator
comment_separator == <<"!">>

\* str::to_lowercase
LowerChar(c) == IF c = "D" THEN "d" ELSE IF c = "O" THEN "o" ELSE c
ToLowercase(s) == [i \in 1..Len(s) |-> LowerChar(s[i])]

\* str::split_once(sep): the text before and after the first occurrence
SplitOnce(s, sep) ==
    LET at(i) == i + Len(sep) - 1 <= Len(s) /\ SubSeq(s, i, i + Len(sep) - 1) = sep
    IN IF \E i \in 1..Len(s) : at(i)
       THEN LET i == CHOOSE j \in 1..Len(s) : at(j) /\ \A k \in 1..(j - 1) : ~at(k)
            IN Some(<<SubSeq(s, 1, i - 1), SubSeq(s, i + Len(sep), Len(s))>>)
       ELSE None

\* extract_arguments: (command, comment)
extract_arguments(text) ==
    IF SplitOnce(text, comment_separator) # None
    THEN [command |-> ToLowercase(SplitOnce(text, comment_separator)[1][1]),
          comment |-> SplitOnce(text, comment_separator)[1][2]]
    ELSE [command |-> ToLowercase(text), comment |-> <<>>]

\* make_tray_id: TrayId::Private(channel_id) or TrayId::Guild(guild_id)
make_tray_id(msg) ==
    IF msg.is_private
    THEN [kind |-> "Private", id |-> Some(msg.channel_id)]
    ELSE [kind |-> "Guild", id |-> msg.guild_id]

\* HashMap::insert
MapInsert(map, id, tray) ==
    [k \in DOMAIN map \cup {id} |-> IF k = id THEN tray ELSE map[k]]

EmptyMap == [k \in {} |-> Tray_new]

\* the lookup of new_roll_output inserting a fresh Tray every time
TrayMap_always_insert(map, id) == MapInsert(map, id, Tray_new)

\* the lookup of new_roll_output with the eviction done before the await
TrayMap_get_or_insert_evicting(map, id) ==
    IF id \in DOMAIN map
    THEN [map EXCEPT ![id].rolls = Tray_evict(@)]
    ELSE MapInsert(map, id, Tray_new)

\* new_roll_output: the Tray of the conversation, inserted when there is none
TrayMap_get_or_insert(map, id) ==
    IF id \in DOMAIN map THEN map ELSE MapInsert(map, id, Tray_new)

NoReply == [status |-> "none", shown |-> <<>>, text |-> <<>>, at |-> "none"]

\* new_roll_output from the call of the Tray to its return: the ways the
\* command can end, each with the tray map it leaves
new_roll_add(map, id, roll_command) ==
    {[map |-> [map EXCEPT ![id].rolls = o.rolls],
      reply |-> [status |-> o.status, shown |-> o.added, text |-> o.text,
                 at |-> "none"]] :
        o \in Tray_add_roll_fom_command(map[id].rolls, roll_command)}

NothingToReroll ==
    [status |-> "nothing_to_reroll", shown |-> <<>>, text |-> <<>>, at |-> "none"]

\* reroll inserting a Tray when the conversation has none
reroll_apply_inserting(map, id) ==
    IF id \in DOMAIN map
    THEN {[map |-> [map EXCEPT ![id].rolls = o.rolls],
           reply |-> [status |-> o.status, shown |-> o.roll, text |-> <<>>,
                      at |-> "none"]] :
             o \in Tray_reroll_latest(map[id].rolls)}
    ELSE {[map |-> MapInsert(map, id, Tray_new), reply |-> NothingToReroll]}

\* reroll, between taking the locks and sending the answer
reroll_apply(map, id) ==
    IF id \in DOMAIN map
    THEN {[map |-> [map EXCEPT ![id].rolls = o.rolls],
           reply |-> [status |-> o.status, shown |-> o.roll, text |-> <<>>,
                      at |-> "none"]] :
             o \in Tray_reroll_latest(map[id].rolls)}
    ELSE {[map |-> map, reply |-> NothingToReroll]}

NoTrayYet == [status |-> "no_tray", shown |-> <<>>, text |-> <<>>, at |-> "none"]

\* verbose, between taking the locks and sending the answer
verbose_apply(map, id) ==
    IF id \in DOMAIN map
    THEN [status |-> Tray_get_newest_roll(map[id].rolls).status,
          shown |-> Tray_get_newest_roll(map[id].rolls).roll,
          text |-> <<>>, at |-> "none"]
    ELSE NoTrayYet

\* pastrolls, between taking the locks and sending the answer
pastrolls_apply(map, id) ==
    IF id \in DOMAIN map
    THEN [status |-> "ok", shown |-> Tray_rolls(map[id]), text |-> <<>>,
          at |-> "none"]
    ELSE NoTrayYet

\* ------------------------------------------------------------------------
\* The locks: ctx.data is a tokio RwLock, the tray map sits in a tokio Mutex
\* ------------------------------------------------------------------------
\* A waiting task gets the lock in some later step; the order in which
\* waiting tasks are served is left open.
RwLock_can_read(writer) == writer = NoTask
RwLock_can_write(writer, readers) == writer = NoTask /\ readers = {}

\* a lock() that never waits
Mutex_unguarded(holder) == TRUE

Mutex_can_lock(holder) == holder = NoTask

\* ------------------------------------------------------------------------
\* Spec: the handlers as tasks
\*   roll:      extract -> wait_data -> wait_map -> wait_nick -> reply -> idle
\*   reroll:    wait_data -> wait_map -> reply_locked -> idle
\*   verbose:   wait_data -> wait_map -> reply_locked -> idle
\*   pastrolls: wait_data -> wait_map -> reply_locked -> idle
\* Each of these positions is an await, where the task can be dropped
\* (cancelled); a panic inside the Tray ends the task as panicked.
\* ------------------------------------------------------------------------
NoReq ==
    [kind |-> "none", msg |-> DirectMessage, text |-> <<>>, command |-> <<>>,
     comment |-> <<>>]

Writers == {"roll", "reroll"}
Readers == {"verbose", "pastrolls"}
SuspensionPoints ==
    {"extract", "wait_data", "wait_map", "wait_nick", "reply", "reply_locked"}

Finished == {"idle", "cancelled", "panicked"}

\* what is left of a command whose task was dropped
Dropped(r) == [NoReq EXCEPT !.kind = r.kind, !.msg = r.msg]

InitHandlers ==
    /\ trayMap = EmptyMap
    /\ dataWriter = NoTask
    /\ dataReaders = {}
    /\ mapHolder = NoTask
    /\ locked = EmptyMap
    /\ pc = [p \in Tasks |-> "idle"]
    /\ req = [p \in Tasks |-> NoReq]
    /\ reply = [p \in Tasks |-> NoReply]

OnlyHandlers == UNCHANGED <<dieVars, poolVars, trayVars, tokenVars, mathVars>>

\* the framework dispatches a roll command to a new task
StartRoll(p, msg, text) ==
    /\ pc[p] \in Finished
    /\ req' = [req EXCEPT ![p] = [kind |-> "roll", msg |-> msg, text |-> text,
                                  command |-> <<>>, comment |-> <<>>]]
    /\ reply' = [reply EXCEPT ![p] = NoReply]
    /\ pc' = [pc EXCEPT ![p] = "extract"]
    /\ UNCHANGED <<trayMap, dataWriter, dataReaders, mapHolder, locked>>
    /\ OnlyHandlers

\* the framework dispatches reroll, verbose or pastrolls to a new task
StartOther(p, kind, msg) ==
    /\ pc[p] \in Finished
    /\ req' = [req EXCEPT ![p] = [kind |-> kind, msg |-> msg, text |-> <<>>,
                                  command |-> <<>>, comment |-> <<>>]]
    /\ reply' = [reply EXCEPT ![p] = NoReply]
    /\ pc' = [pc EXCEPT ![p] = "wait_data"]
    /\ UNCHANGED <<trayMap, dataWriter, dataReaders, mapHolder, locked>>
    /\ OnlyHandlers

\* roll: extract_arguments takes ctx.data for reading, splits the text and
\* gives the lock back when it returns
ExtractArguments(p) ==
    /\ pc[p] = "extract"
    /\ RwLock_can_read(dataWriter)
    /\ req' = [req EXCEPT ![p].command = extract_arguments(req[p].text).command,
                          ![p].comment = extract_arguments(req[p].text).comment]
    /\ pc' = [pc EXCEPT ![p] = "wait_data"]
    /\ UNCHANGED <<trayMap, dataWriter, dataReaders, mapHolder, locked, reply>>
    /\ OnlyHandlers

\* roll, reroll: ctx.data.write().await
AcquireDataWrite(p) ==
    /\ pc[p] = "wait_data"
    /\ req[p].kind \in Writers
    /\ RwLock_can_write(dataWriter, dataReaders)
    /\ dataWriter' = p
    /\ pc' = [pc EXCEPT ![p] = "wait_map"]
    /\ UNCHANGED <<trayMap, dataReaders, mapHolder, locked, req, reply>>
    /\ OnlyHandlers

\* verbose, pastrolls: ctx.data.read().await
AcquireDataRead(p) ==
    /\ pc[p] = "wait_data"
    /\ req[p].kind \in Readers
    /\ RwLock_can_read(dataWriter)
    /\ dataReaders' = dataReaders \cup {p}
    /\ pc' = [pc EXCEPT ![p] = "wait_map"]
    /\ UNCHANGED <<trayMap, dataWriter, mapHolder, locked, req, reply>>
    /\ OnlyHandlers

\* new_roll_output: .lock().await, then the Tray is looked up or inserted and
\* the task waits for msg.author_nick
RollLockMap(p) ==
    /\ pc[p] = "wait_map"
    /\ req[p].kind = "roll"
    /\ Mutex_can_lock(mapHolder)
    /\ mapHolder' = p
    /\ locked' = trayMap
    /\ trayMap' = TrayMap_get_or_insert(trayMap, make_tray_id(req[p].msg))
    /\ pc' = [pc EXCEPT ![p] = "wait_nick"]
    /\ UNCHANGED <<dataWriter, dataReaders, req, reply>>
    /\ OnlyHandlers

\* new_roll_output: the nickname arrives, the Tray takes the command, and the
\* function returns (or unwinds), which drops both guards; roll then sends
\* the answer
RollAdd(p) ==
    /\ pc[p] = "wait_nick"
    /\ \E o \in new_roll_add(trayMap, make_tray_id(req[p].msg), req[p].command) :
          /\ trayMap' = o.map
          /\ IF o.reply.status = "panic"
             THEN /\ pc' = [pc EXCEPT ![p] = "panicked"]
                  /\ req' = [req EXCEPT ![p] = NoReq]
                  /\ reply' = [reply EXCEPT ![p] = NoReply]
             ELSE /\ pc' = [pc EXCEPT ![p] = "reply"]
                  /\ req' = req
                  /\ reply' = [reply EXCEPT ![p] = o.reply]
    /\ mapHolder' = NoTask
    /\ locked' = EmptyMap
    /\ dataWriter' = NoTask
    /\ UNCHANGED dataReaders
    /\ OnlyHandlers

\* roll: msg.reply_ping completes
RollReply(p) ==
    /\ pc[p] = "reply"
    /\ pc' = [pc EXCEPT ![p] = "idle"]
    /\ req' = [req EXCEPT ![p] = NoReq]
    /\ reply' = [reply EXCEPT ![p] = NoReply]
    /\ UNCHANGED <<trayMap, dataWriter, dataReaders, mapHolder, locked>>
    /\ OnlyHandlers

\* reroll: .lock().await, then the newest roll of the Tray is rerolled and
\* the answer is sent with both guards still alive
RerollLockMap(p) ==
    /\ pc[p] = "wait_map"
    /\ req[p].kind = "reroll"
    /\ Mutex_can_lock(mapHolder)
    /\ mapHolder' = p
    /\ locked' = trayMap
    /\ \E o \in reroll_apply(trayMap, make_tray_id(req[p].msg)) :
          /\ trayMap' = o.map
          /\ reply' = [reply EXCEPT ![p] = o.reply]
    /\ pc' = [pc EXCEPT ![p] = "reply_locked"]
    /\ UNCHANGED <<dataWriter, dataReaders, req>>
    /\ OnlyHandlers

\* verbose, pastrolls: .lock().await, then the Tray is read and the answer is
\* sent with both guards still alive
ReadLockMap(p) ==
    /\ pc[p] = "wait_map"
    /\ req[p].kind \in Readers
    /\ Mutex_can_lock(mapHolder)
    /\ mapHolder' = p
    /\ locked' = trayMap
    /\ reply' = [reply EXCEPT ![p] =
                    IF req[p].kind = "verbose"
                    THEN verbose_apply(trayMap, make_tray_id(req[p].msg))
                    ELSE pastrolls_apply(trayMap, make_tray_id(req[p].msg))]
    /\ pc' = [pc EXCEPT ![p] = "reply_locked"]
    /\ UNCHANGED <<trayMap, dataWriter, dataReaders, req>>
    /\ OnlyHandlers

\* only the guard of the tray map is dropped
ReleaseAll_map_only(p) ==
    /\ mapHolder' = IF mapHolder = p THEN NoTask ELSE mapHolder
    /\ locked' = IF mapHolder = p THEN EmptyMap ELSE locked
    /\ UNCHANGED <<dataWriter, dataReaders>>

\* the guards of task p are dropped
ReleaseAll(p) ==
    /\ mapHolder' = IF mapHolder = p THEN NoTask ELSE mapHolder
    /\ locked' = IF mapHolder = p THEN EmptyMap ELSE locked
    /\ dataWriter' = IF dataWriter = p THEN NoTask ELSE dataWriter
    /\ dataReaders' = dataReaders \ {p}

\* reroll, verbose, pastrolls: the answer is sent and the handler returns
ReplyLocked(p) ==
    /\ pc[p] = "reply_locked"
    /\ ReleaseAll(p)
    /\ pc' = [pc EXCEPT ![p] = "idle"]
    /\ req' = [req EXCEPT ![p] = NoReq]
    /\ reply' = [reply EXCEPT ![p] = NoReply]
    /\ UNCHANGED trayMap
    /\ OnlyHandlers

\* the task is dropped at an await: its guards are dropped with it
Cancel(p) ==
    /\ pc[p] \in SuspensionPoints
    /\ ReleaseAll(p)
    /\ reply' = [reply EXCEPT ![p] = [status |-> "cancelled", shown |-> <<>>,
                                      text |-> <<>>, at |-> pc[p]]]
    /\ req' = [req EXCEPT ![p] = Dropped(req[p])]
    /\ pc' = [pc EXCEPT ![p] = "cancelled"]
    /\ UNCHANGED trayMap
    /\ OnlyHandlers

Next ==
    \/ \E p \in Tasks, msg \in Messages, text \in Texts : StartRoll(p, msg, text)
    \/ \E p \in Tasks, kind \in {"reroll", "verbose", "pastrolls"},
          msg \in Messages : StartOther(p, kind, msg)
    \/ \E p \in Tasks : ExtractArguments(p)
    \/ \E p \in Tasks : AcquireDataWrite(p)
    \/ \E p \in Tasks : AcquireDataRead(p)
    \/ \E p \in Tasks : RollLockMap(p)
    \/ \E p \in Tasks : RollAdd(p)
    \/ \E p \in Tasks : RollReply(p)
    \/ \E p \in Tasks : RerollLockMap(p)
    \/ \E p \in Tasks : ReadLockMap(p)
    \/ \E p \in Tasks : ReplyLocked(p)
    \/ \E p \in Tasks : Cancel(p)

\* ------------------------------------------------------------------------
\* token_kinds.rs: arguments, and the recursive Explode and Reroll operators
\* ------------------------------------------------------------------------

\* enum Argument { Single(u8), Array(Vec<u8>) }; the number of a Single is
\* held as a sequence of one
Single(n) == [kind |-> "Single", arg |-> <<n>>]
Array(a) == [kind |-> "Array", arg |-> a]

\* the first k faces, as an array argument
RECURSIVE Faces(_)
Faces(k) == IF k <= 0 THEN <<>> ELSE Append(Faces(k - 1), k)

\* the arguments given to the operators
Arguments ==
    {Single(n) : n \in 0..MaxSides} \cup {Array(Faces(k)) : k \in 0..MaxSides}

\* the die is one the argument names: its result equals the single number, or
\* is one of the numbers of the array
ArgMatches(die, argument) ==
    IF argument.kind = "Single" THEN Die_equals(die, argument.arg[1])
    ELSE \E i \in 1..Len(argument.arg) : Die_equals(die, argument.arg[i])

\* one generation of an explosion: a new die (Die::explode) for every die of
\* the generation before that the argument names, in their order
Pool_explode_generation(last, argument) ==
    LET hits == SelectSeq(last, LAMBDA d : ArgMatches(d, argument))
    IN  {f \in [1..Len(hits) -> UNION {Die_explode(d) : d \in Range(hits)}] :
            \A j \in 1..Len(hits) : f[j] \in Die_explode(hits[j])}

\* one pass of a recursive reroll: every die the argument names rerolled
Pool_reroll_pass(p, argument) ==
    RerollWhere(p, {i \in 1..Len(p.dice) : ArgMatches(p.dice[i], argument)})

\* Pool::new(0, 0)
EmptyPool == [number |-> 0, sides |-> 0, dice |-> <<>>]

\* no recursive operator has been applied yet
NoLoop ==
    [op |-> "none", pc |-> "idle", arg |-> Single(0), pool |-> EmptyPool,
     last |-> <<>>]

InitLoops == loop = NoLoop

LoopStep ==
    UNCHANGED <<dieVars, poolVars, trayVars, handlerVars, targetOp, tokenOp,
                mathVars>>

\* Explode::Recursive.apply(pool, argument): pool.explode_n(n, true) or
\* pool.explode_specific(&array, true) begins on the pool of a Dice token of
\* `number` dice of `sides` sides, the pool is generation 0
ExplodeStart(number, sides) ==
    /\ loop.pc \in {"idle", "done"}
    /\ \E p \in Pool_new(number, sides), argument \in Arguments :
          loop' = [op |-> "explode", pc |-> "check", arg |-> argument,
                   pool |-> p, last |-> p.dice]
    /\ LoopStep

\* the loop condition: does a die of the newest generation explode?
ExplodeCheck ==
    /\ loop.op = "explode"
    /\ loop.pc = "check"
    /\ loop' = [loop EXCEPT !.pc =
                  IF \E i \in 1..Len(loop.last) : ArgMatches(loop.last[i], loop.arg)
                  THEN "roll" ELSE "done"]
    /\ LoopStep

\* the loop body: the next generation is rolled and becomes the newest
ExplodeRoll ==
    /\ loop.op = "explode"
    /\ loop.pc = "roll"
    /\ \E new \in Pool_explode_generation(loop.last, loop.arg) :
          loop' = [loop EXCEPT !.last = new, !.pc = "check"]
    /\ LoopStep

\* Reroll::Recursive.apply(pool, argument): rerolled_pool.reroll_n_recursive(n)
\* or rerolled_pool.reroll_specific_recursive(&array) begins on a clone of
\* the pool of a Dice token of `number` dice of `sides` sides
RerollStart(number, sides) ==
    /\ loop.pc \in {"idle", "done"}
    /\ \E p \in Pool_new(number, sides), argument \in Arguments :
          loop' = [op |-> "reroll", pc |-> "check", arg |-> argument,
                   pool |-> p, last |-> <<>>]
    /\ LoopStep

\* the loop condition: does a die of the pool match the argument?
RerollCheck ==
    /\ loop.op = "reroll"
    /\ loop.pc = "check"
    /\ loop' = [loop EXCEPT !.pc =
                  IF \E i \in 1..Len(loop.pool.dice) :
                        ArgMatches(loop.pool.dice[i], loop.arg)
                  THEN "roll" ELSE "done"]
    /\ LoopStep

\* the loop body: the matching dice are rerolled
RerollRoll ==
    /\ loop.op = "reroll"
    /\ loop.pc = "roll"
    /\ \E q \in Pool_reroll_pass(loop.pool, loop.arg) :
          loop' = [loop EXCEPT !.pool = q, !.pc = "check"]
    /\ LoopStep

\* ------------------------------------------------------------------------
\* token_kinds.rs: Target
\* ------------------------------------------------------------------------

\* Die::count_successes(&self, tns): tns[(self.result - 1) as usize]; the
\* outcomes of the indexing ({} = panic, index out of bounds)
Die_count_successes(die, tns) ==
    IF die.result \in 1..Len(tns) THEN {tns[die.result]} ELSE {}

\* Pool::count_dice_over(threshold): the dice that are equal_or_greater
Pool_count_dice_over(p, threshold) ==
    Cardinality({i \in 1..Len(p.dice) : Die_equal_or_greater(p.dice[i], threshold)})

\* Pool::count_dice_under(threshold): the dice that are equal_or_less
Pool_count_dice_under(p, threshold) ==
    Cardinality({i \in 1..Len(p.dice) : Die_equal_or_less(p.dice[i], threshold)})

RECURSIVE SumSuccesses(_, _)
SumSuccesses(ds, tns) ==
    IF ds = <<>> THEN 0
    ELSE (CHOOSE n \in Die_count_successes(Head(ds), tns) : TRUE)
            + SumSuccesses(Tail(ds), tns)

\* Pool::count_successes(&tns): Die::count_successes summed over the dice
\* ({} = panic, one of the dice indexes beyond the table)
Pool_count_successes(p, tns) ==
    IF \E i \in 1..Len(p.dice) : Die_count_successes(p.dice[i], tns) = {}
    THEN {}
    ELSE {SumSuccesses(p.dice, tns)}

\* Pool::sides_max()
Pool_sides_max(p) == p.sides

\* the operand tokens of Target::apply: a resolved Dice token, or a resolved
\* Target token { arg, pool, sux } of kind Success or Botch
DiceToken(p) == [kind |-> "Dice", arg |-> None, pool |-> p, sux |-> 0]
TargetToken(kind, argument, p, sux) ==
    [kind |-> kind, arg |-> Some(argument), pool |-> p, sux |-> sux]

\* RollValue::to_decimal of target.value(): the count of a Successes value
RollValue_to_decimal(token) == token.sux

\* vec![0; n]
RECURSIVE Zeros(_)
Zeros(n) == IF n <= 0 THEN <<>> ELSE Append(Zeros(n - 1), 0)

\* vec![0; max_sides] with the table copied to its upper end, or its first
\* max_sides entries when the table is the longer
Success_tns(max_sides, threshold_array) ==
    LET len == Len(threshold_array)
    IN  IF max_sides >= len
        THEN Zeros(max_sides - len) \o threshold_array
        ELSE SubSeq(threshold_array, 1, max_sides)

\* vec![0; max_sides] with the table copied to its lower end, or its first
\* max_sides entries when the table is the longer
Botch_tns(max_sides, threshold_array) ==
    LET len == Len(threshold_array)
    IN  IF max_sides >= len
        THEN threshold_array \o Zeros(max_sides - len)
        ELSE SubSeq(threshold_array, 1, max_sides)

\* Target::apply with Botch adding its count to the base
Target_apply_adding(self, token, argument) ==
    LET base_sux == IF token.kind \in {"Success", "Botch"}
                    THEN RollValue_to_decimal(token) ELSE 0
    IN  IF argument.kind = "Single"
        THEN LET threshold == argument.arg[1]
             IN  IF self = "Success"
                 THEN {TargetToken(self, argument, token.pool,
                         base_sux + Pool_count_dice_over(token.pool, threshold))}
                 ELSE {TargetToken(self, argument, token.pool,
                         base_sux + Pool_count_dice_under(token.pool, threshold))}
        ELSE LET threshold_array == argument.arg
                 max_sides == Pool_sides_max(token.pool)
             IN  IF self = "Success"
                 THEN LET tns == Success_tns(max_sides, threshold_array)
                      IN  {TargetToken(self, Array(tns), token.pool, sux) :
                             sux \in Pool_count_successes(token.pool, tns)}
                 ELSE LET tns == Botch_tns(max_sides, threshold_array)
                      IN  {TargetToken(self, Array(tns), token.pool, sux) :
                             sux \in Pool_count_successes(token.pool, threshold_array)}

\* Target::apply(&self, token, argument): the tokens it may return
\* ({} = panic); self is "Success" or "Botch"
Target_apply(self, token, argument) ==
    LET base_sux == IF token.kind \in {"Success", "Botch"}
                    THEN RollValue_to_decimal(token) ELSE 0
    IN  IF argument.kind = "Single"
        THEN LET threshold == argument.arg[1]
             IN  IF self = "Success"
                 THEN {TargetToken(self, argument, token.pool,
                         base_sux + Pool_count_dice_over(token.pool, threshold))}
                 ELSE {TargetToken(self, argument, token.pool,
                         base_sux - Pool_count_dice_under(token.pool, threshold))}
        ELSE LET threshold_array == argument.arg
                 max_sides == Pool_sides_max(token.pool)
             IN  IF self = "Success"
                 THEN LET tns == Success_tns(max_sides, threshold_array)
                      IN  {TargetToken(self, Array(tns), token.pool, sux) :
                             sux \in Pool_count_successes(token.pool, tns)}
                 ELSE LET tns == Botch_tns(max_sides, threshold_array)
                      IN  {TargetToken(self, Array(tns), token.pool, 0 - sux) :
                             sux \in Pool_count_successes(token.pool, threshold_array)}

\* the arguments given to Target::apply: thresholds, and tables whose entry i
\* is i, shorter than, as long as and longer than the sides
TargetArguments ==
    {Single(n) : n \in 0..(MaxSides + 1)}
        \cup {Array(Faces(k)) : k \in 0..(MaxSides + 1)}

\* the last Target::apply: the kind of self, the argument, the operand, how
\* it ended, the token it returned, and how many Target tokens are chained
NoTarget ==
    [op |-> "none", argument |-> Single(0), operand |-> DiceToken(EmptyPool),
     status |-> "ok", result |-> None, chain |-> 0]

InitTarget == targetOp = NoTarget

\* self.apply(token, argument)
TargetStep(self, token, argument, chain) ==
    IF Target_apply(self, token, argument) = {}
    THEN targetOp' = [op |-> self, argument |-> argument, operand |-> token,
                      status |-> "panic", result |-> None, chain |-> chain]
    ELSE \E t \in Target_apply(self, token, argument) :
            targetOp' = [op |-> self, argument |-> argument, operand |-> token,
                         status |-> "ok", result |-> Some(t), chain |-> chain]

TargetFrame ==
    UNCHANGED <<dieVars, poolVars, trayVars, handlerVars, loop, tokenOp,
                mathVars>>

\* the first Target token of an expression, applied to the resolved Dice
\* token of `number` dice of `sides` sides
TargetApplyToDice(self, number, sides) ==
    /\ targetOp.op = "none"
    /\ TargetFrame
    /\ \E p \in Pool_new(number, sides), argument \in TargetArguments :
          TargetStep(self, DiceToken(p), argument, 1)

\* a Target token applied to the Target token resolved last
TargetApplyToTarget(self) ==
    /\ targetOp.result # None
    /\ targetOp.chain < MaxChain
    /\ TargetFrame
    /\ \E argument \in TargetArguments :
          TargetStep(self, targetOp.result[1], argument, targetOp.chain + 1)


\* ------------------------------------------------------------------------
\* token_kinds.rs: the token variants, from_str, pool() and value()
\* ------------------------------------------------------------------------

\* a roll token: its variant and mode, and the fields its apply fills in:
\* arg, the pools of res / base / pool (one pool, or the generations of an
\* Explode), the symbols of a Genesys conversion, sux, the operands of a Merge
Token(variant, mode) ==
    [variant |-> variant, mode |-> mode, arg |-> None, res |-> <<>>,
     symbols |-> <<>>, sux |-> 0, left |-> None, right |-> None]

\* the tokens from_str returns: every field empty
UnresolvedTokens ==
    {Token("Dice", "d"), Token("Merge", "merge")}
        \cup {Token("Genesys", m) : m \in {"Boost", "Setback", "Ability",
                    "Difficulty", "Proficiency", "Challenge"}}
        \cup {Token("Cap", m) : m \in {"Max", "Min"}}
        \cup {Token("Explode", m) : m \in {"Additive", "Once", "Recursive"}}
        \cup {Token("Keep", m) : m \in {"Exact", "High", "Low"}}
        \cup {Token("Reroll", m) : m \in {"Better", "Once", "Recursive", "Worse"}}
        \cup {Token("Target", m) : m \in {"Success", "Botch"}}

\* RollValue: Numeric, Successes or the tally of Genesys symbols
RollValue(kind, n) == [kind |-> kind, n |-> n]

\* Result<Pool, RollError>, Result<RollValue, RollError>, Result<Self, RollError>
PoolOk(p) ==
    [status |-> "ok", err |-> "none", pool |-> Some(p), value |-> None,
     token |-> None]
ValueOk(v) ==
    [status |-> "ok", err |-> "none", pool |-> None, value |-> Some(v),
     token |-> None]
TokenOk(t) ==
    [status |-> "ok", err |-> "none", pool |-> None, value |-> None,
     token |-> Some(t)]
RollErr(e) ==
    [status |-> "err", err |-> e, pool |-> None, value |-> None, token |-> None]

\* Pool::add(&self, other): the dice of both pools
Pool_add(p, q) ==
    [number |-> p.number + q.number,
     sides |-> IF p.sides >= q.sides THEN p.sides ELSE q.sides,
     dice |-> p.dice \o q.dice]

\* res.iter().fold(Pool::new(0, 0), |final_pool, pool| final_pool.add(pool))
RECURSIVE FoldAdd(_)
FoldAdd(res) ==
    IF res = <<>> THEN EmptyPool
    ELSE Pool_add(FoldAdd(SubSeq(res, 1, Len(res) - 1)), res[Len(res)])

\* RollValue::add(self, other)
RollValue_add(a, b) ==
    IF a.kind = b.kind THEN ValueOk(RollValue(a.kind, a.n + b.n))
    ELSE RollErr("KindMismatchError")

\* GenesysValue::new(res): the symbols counted
RECURSIVE GenesysValue_new(_)
GenesysValue_new(res) ==
    IF res = <<>> THEN 0 ELSE Len(Head(res)) + GenesysValue_new(Tail(res))

\* Explode::pool with Once adding up any number of generations
Explode_pool_lenient(token) ==
    IF Len(token.res) = 0 THEN RollErr("MissingPoolError")
    ELSE IF token.mode = "Additive" THEN PoolOk(token.res[Len(token.res)])
    ELSE PoolOk(FoldAdd(token.res))

\* Explode::pool(self)
Explode_pool(token) ==
    LET res == token.res
    IN  CASE token.mode = "Additive" ->
               IF Len(res) = 0 THEN RollErr("MissingPoolError")
               ELSE PoolOk(res[Len(res)])
          [] token.mode = "Once" ->
               IF Len(res) = 0 THEN RollErr("MissingPoolError")
               ELSE IF Len(res) = 1 THEN PoolOk(res[1])
               ELSE IF Len(res) = 2 THEN PoolOk(Pool_add(res[1], res[2]))
               ELSE RollErr("FBomb")
          [] token.mode = "Recursive" ->
               IF Len(res) = 0 THEN RollErr("MissingPoolError")
               ELSE PoolOk(FoldAdd(res))

\* pool(self) of each variant: the results it may return ({} = panic)
RECURSIVE Token_pool(_)
Token_pool(token) ==
    CASE token.variant = "Dice" ->
           IF token.res = <<>> THEN {RollErr("MissingPoolError")}
           ELSE {PoolOk(token.res[1])}
      [] token.variant = "Merge" ->
           IF token.left = None THEN {RollErr("NotResolvedError")}
           ELSE UNION {
              IF l.status # "ok" THEN {l}
              ELSE IF token.right = None THEN {RollErr("NotResolvedError")}
              ELSE {IF r.status # "ok" THEN r
                    ELSE PoolOk(Pool_add(l.pool[1], r.pool[1])) :
                       r \in Token_pool(token.right[1])} :
                 l \in Token_pool(token.left[1])}
      [] token.variant = "Genesys" ->
           IF token.res = <<>> THEN {RollErr("NotResolvedError")}
           ELSE {PoolOk(token.res[1])}
      [] token.variant = "Cap" -> {}
      [] token.variant = "Explode" -> {Explode_pool(token)}
      [] token.variant \in {"Keep", "Reroll"} ->
           IF token.res = <<>> THEN {RollErr("NotResolvedError")}
           ELSE {PoolOk(token.res[1])}
      [] token.variant = "Target" ->
           IF token.res = <<>> THEN {RollErr("MissingPoolError")}
           ELSE {PoolOk(token.res[1])}

\* Ok(pool.total().into()) of a pool() result
TotalOf(r) ==
    IF r.status # "ok" THEN r
    ELSE ValueOk(RollValue("Numeric", Pool_total(r.pool[1])))

RECURSIVE Token_value(_)

\* Merge::value returning the value of its left operand
Merge_value_left(token) ==
    IF token.left = None THEN {RollErr("NotResolvedError")}
    ELSE Token_value(token.left[1])

\* Merge::value(&self)
Merge_value(token) ==
    IF token.left = None THEN {RollErr("NotResolvedError")}
    ELSE UNION {
       IF l.status # "ok" THEN {l}
       ELSE IF token.right = None THEN {RollErr("NotResolvedError")}
       ELSE {IF r.status # "ok" THEN r
             ELSE RollValue_add(l.value[1], r.value[1]) :
                r \in Token_value(token.right[1])} :
          l \in Token_value(token.left[1])}

\* value(&self) of each variant: the results it may return ({} = panic)
Token_value(token) ==
    CASE token.variant \in {"Dice", "Explode", "Keep", "Reroll"} ->
           {TotalOf(r) : r \in Token_pool(token)}
      [] token.variant = "Merge" -> Merge_value(token)
      [] token.variant = "Genesys" ->
           {ValueOk(RollValue("Genesys", GenesysValue_new(token.symbols)))}
      [] token.variant = "Cap" -> {}
      [] token.variant = "Target" ->
           {ValueOk(RollValue("Successes", token.sux))}

\* no token has been read yet
NoTokenOp ==
    [op |-> "none", token |-> Token("Dice", "d"), resolved |-> FALSE,
     argument |-> None, operand |-> None, status |-> "ok",
     result |-> RollErr("none")]

InitTokens == tokenOp = NoTokenOp

TokenFrame ==
    UNCHANGED <<dieVars, poolVars, trayVars, handlerVars, loop, targetOp,
                mathVars>>

\* let token = s.parse(): one of the unresolved tokens
TokenFromStr ==
    /\ \E t \in UnresolvedTokens :
          tokenOp' = [NoTokenOp EXCEPT !.op = "from_str", !.token = t,
                                       !.result = TokenOk(t)]
    /\ TokenFrame

\* a call of an accessor on the token at hand: its outcomes are `outs`
TokenCall(op, outs) ==
    IF outs = {}
    THEN tokenOp' = [tokenOp EXCEPT !.op = op, !.status = "panic",
                                    !.result = RollErr("none")]
    ELSE \E r \in outs :
            tokenOp' = [tokenOp EXCEPT !.op = op, !.status = r.status,
                                       !.result = r]

\* token.pool()
TokenPool ==
    /\ tokenOp.op # "none"
    /\ TokenCall("pool", Token_pool(tokenOp.token))
    /\ TokenFrame

\* token.value()
TokenValue ==
    /\ tokenOp.op # "none"
    /\ TokenCall("value", Token_value(tokenOp.token))
    /\ TokenFrame

\* Pool::keep_exact(&self, keep_array): the dice whose result is in the array
Pool_keep_exact(p, keep_array) ==
    [p EXCEPT !.dice = SelectSeq(p.dice, LAMBDA d : ArgMatches(d, Array(keep_array)))]

\* Keep::apply with High and Low taking the first number of any array
Keep_apply_first(self, p, argument) ==
    IF self.mode = "Exact"
    THEN {TokenOk([self EXCEPT !.arg = Some(argument),
                               !.res = <<Pool_keep_exact(p, argument.arg)>>])}
    ELSE IF argument.arg = <<>> THEN {RollErr("ArgumentError")}
    ELSE {TokenOk([self EXCEPT !.arg = Some(argument), !.res = <<k>>]) :
            k \in IF self.mode = "High"
                  THEN Pool_keep_highest(p, argument.arg[1])
                  ELSE Pool_keep_lowest(p, argument.arg[1])}

\* Keep::apply(&self, pool, argument): the results it may return
\* ({} = panic)
Keep_apply(self, p, argument) ==
    IF self.mode = "Exact"
    THEN {TokenOk([self EXCEPT !.arg = Some(argument),
                               !.res = <<Pool_keep_exact(p, argument.arg)>>])}
    ELSE IF argument.kind = "Array" /\ Len(argument.arg) # 1
    THEN {RollErr("ArgumentError")}
    ELSE {TokenOk([self EXCEPT !.arg = Some(argument), !.res = <<k>>]) :
            k \in IF self.mode = "High"
                  THEN Pool_keep_highest(p, argument.arg[1])
                  ELSE Pool_keep_lowest(p, argument.arg[1])}

\* Pool::explode_n(n, false) / Pool::explode_specific(&array, false): the
\* base pool, followed by the pool of the new dice when a die explodes
Pool_explode_once(p, argument) ==
    IF ~\E i \in 1..Len(p.dice) : ArgMatches(p.dice[i], argument)
    THEN {<<p>>}
    ELSE {<<p, [number |-> Len(g), sides |-> p.sides, dice |-> g]>> :
            g \in Pool_explode_generation(p.dice, argument)}

\* Explode::Once.apply(pool, argument)
Explode_apply(self, p, argument) ==
    {TokenOk([self EXCEPT !.arg = Some(argument), !.res = res]) :
        res \in Pool_explode_once(p, argument)}

\* Merge::apply(&self, left, right)
Merge_apply(self, left, right) ==
    {TokenOk([self EXCEPT !.left = Some(left), !.right = Some(right)])}

\* the arguments given to Keep::apply: numbers, and arrays of up to two
KeepArguments ==
    {Single(n) : n \in 0..MaxSides}
        \cup {Array(<<>>)}
        \cup {Array(<<n>>) : n \in 0..MaxSides}
        \cup {Array(<<n, m>>) : n, m \in 1..MaxSides}

\* the operands given to Merge::apply: an unresolved Dice token, and
\* resolved Dice, Target and Genesys tokens
MergeOperands ==
    {Token("Dice", "d")}
        \cup UNION {
             {[Token("Dice", "d") EXCEPT !.res = <<p>>],
              [Token("Target", "Success") EXCEPT
                    !.arg = Some(Single(1)), !.res = <<p>>, !.sux = Len(p.dice)],
              [Token("Genesys", "Boost") EXCEPT
                    !.res = <<p>>, !.symbols = <<<<"Advantage">>>>]} :
                 p \in Pool_new(1, 2)}

\* a call of apply on the token at hand: its outcomes are `outs`
TokenApply(argument, operand, outs) ==
    IF outs = {}
    THEN tokenOp' = [tokenOp EXCEPT !.op = "apply", !.argument = argument,
                                    !.operand = operand, !.status = "panic",
                                    !.result = RollErr("none")]
    ELSE \E r \in outs :
            tokenOp' = [op |-> "apply",
                        token |-> IF r.status = "ok" THEN r.token[1]
                                  ELSE tokenOp.token,
                        resolved |-> r.status = "ok",
                        argument |-> argument, operand |-> operand,
                        status |-> r.status, result |-> r]

\* keep.apply(token.pool()?, argument) on the pool of a Dice token
KeepApply ==
    /\ tokenOp.op = "from_str"
    /\ tokenOp.token.variant = "Keep"
    /\ \E number \in 1..MaxTokenDice, sides \in 1..MaxSides :
          \E p \in Pool_new(number, sides), argument \in KeepArguments :
             TokenApply(Some(argument), Some(p),
                        Keep_apply(tokenOp.token, p, argument))
    /\ TokenFrame

\* explode.apply(token.pool()?, argument) of Explode::Once on the pool of a
\* Dice token
ExplodeApply ==
    /\ tokenOp.op = "from_str"
    /\ tokenOp.token.variant = "Explode"
    /\ tokenOp.token.mode = "Once"
    /\ \E number \in 1..MaxTokenDice, sides \in 1..MaxSides :
          \E p \in Pool_new(number, sides), argument \in Arguments :
             TokenApply(Some(argument), Some(p),
                        Explode_apply(tokenOp.token, p, argument))
    /\ TokenFrame

\* merge.apply(left, right)
MergeApply ==
    /\ tokenOp.op = "from_str"
    /\ tokenOp.token.variant = "Merge"
    /\ \E left \in MergeOperands, right \in MergeOperands :
          TokenApply(None, None, Merge_apply(tokenOp.token, left, right))
    /\ TokenFrame

\* Explode::Once { arg, res } written out with one more generation
ExplodeWithGeneration ==
    /\ tokenOp.op \in {"from_str", "build"}
    /\ tokenOp.token.variant = "Explode"
    /\ Len(tokenOp.token.res) < MaxGenerations
    /\ \E g \in Pool_new(1, 2) :
          tokenOp' = [NoTokenOp EXCEPT
                        !.op = "build",
                        !.token = [tokenOp.token EXCEPT !.res = Append(@, g)],
                        !.resolved = TRUE]
    /\ TokenFrame

\* ------------------------------------------------------------------------
\* math/calculator.rs
\* ------------------------------------------------------------------------

\* RpnToken: Number(f64), the five arithmetic operators, and the tokens that
\* are not arithmetic
Number(n) == [kind |-> "Number", val |-> n]
RpnOp(kind) == [kind |-> kind, val |-> 0]
ArithmeticKinds == {"Add", "Sub", "Mul", "Div", "Pow"}

\* f64 values: the number of a literal, or the value of `left op right`,
\* held as the term that computes it (the f64 operations are total)
F64(n) == <<"Number", n>>
F64Op(kind, left, right) == <<kind, left, right>>

\* Result<f64, MathError>
MathOk(v) == [ok |-> TRUE, val |-> <<v>>, err |-> "none"]
MathErr(e) == [ok |-> FALSE, val |-> <<>>, err |-> e]

\* resolve_rpn with the operands of an operator taken in the other order
RECURSIVE RpnLoop_swapped(_, _)
RpnLoop_swapped(tokens, stack) ==
    IF tokens = <<>>
    THEN IF Len(stack) # 1 THEN MathErr("PlaceholderError")
         ELSE MathOk(stack[Len(stack)])
    ELSE LET token == Head(tokens)
             n == Len(stack)
         IN  IF token.kind = "Number"
             THEN RpnLoop_swapped(Tail(tokens), Append(stack, F64(token.val)))
             ELSE IF token.kind \in ArithmeticKinds
             THEN IF n < 2 THEN MathErr("PlaceholderError")
                  ELSE RpnLoop_swapped(Tail(tokens),
                          Append(SubSeq(stack, 1, n - 2),
                                 F64Op(token.kind, stack[n], stack[n - 1])))
             ELSE MathErr("PlaceholderError")

\* the loop of resolve_rpn over the tokens left, `stack` with its top last:
\* a number is pushed; an operator pops right, then left (either pop failing
\* with PlaceholderError) and pushes left op right; any other token fails;
\* at the end the stack must hold exactly one value
RECURSIVE RpnLoop(_, _)
RpnLoop(tokens, stack) ==
    IF tokens = <<>>
    THEN IF Len(stack) # 1 THEN MathErr("PlaceholderError")
         ELSE MathOk(stack[Len(stack)])
    ELSE LET token == Head(tokens)
             n == Len(stack)
         IN  IF token.kind = "Number"
             THEN RpnLoop(Tail(tokens), Append(stack, F64(token.val)))
             ELSE IF token.kind \in ArithmeticKinds
             THEN IF n < 1 THEN MathErr("PlaceholderError")
                  ELSE IF n < 2 THEN MathErr("PlaceholderError")
                  ELSE RpnLoop(Tail(tokens),
                          Append(SubSeq(stack, 1, n - 2),
                                 F64Op(token.kind, stack[n - 1], stack[n])))
             ELSE MathErr("PlaceholderError")

\* resolve_rpn(postfix_expression)
resolve_rpn(postfix_expression) == RpnLoop(postfix_expression, <<>>)

\* the precedence of a binary operator, and whether it groups to the left
Precedence(kind) ==
    CASE kind = "Pow" -> 3
      [] kind \in {"Mul", "Div"} -> 2
      [] kind \in {"Add", "Sub"} -> 1
      [] OTHER -> 0
LeftAssociative(kind) == kind # "Pow"

\* the operators on top of the operator stack `ops` (top last) that are
\* output before `kind` is pushed: those that bind tighter, or as tight when
\* `kind` groups to the left, down to the nearest parenthesis
RECURSIVE PopCount(_, _)
PopCount(ops, kind) ==
    IF ops = <<>> THEN 0
    ELSE LET top == ops[Len(ops)].kind
         IN  IF /\ top \in ArithmeticKinds
                /\ \/ Precedence(top) > Precedence(kind)
                   \/ Precedence(top) = Precedence(kind) /\ LeftAssociative(kind)
             THEN 1 + PopCount(SubSeq(ops, 1, Len(ops) - 1), kind)
             ELSE 0

\* the operators above the nearest left parenthesis of `ops`, or -1 when
\* there is no left parenthesis
RECURSIVE AboveParen(_)
AboveParen(ops) ==
    IF ops = <<>> THEN 0 - 1
    ELSE IF ops[Len(ops)].kind = "LParen" THEN 0
    ELSE LET below == AboveParen(SubSeq(ops, 1, Len(ops) - 1))
         IN  IF below < 0 THEN below ELSE below + 1

\* a sequence in the opposite order
RECURSIVE Reverse(_)
Reverse(q) == IF q = <<>> THEN <<>> ELSE Append(Reverse(Tail(q)), Head(q))

\* the last `k` entries of `ops`, top first
Popped(ops, k) == Reverse(SubSeq(ops, Len(ops) - k + 1, Len(ops)))

\* the loop of RpnExpression::shunting_yard over the infix tokens left
RECURSIVE YardLoop(_, _, _)
YardLoop(tokens, out, ops) ==
    IF tokens = <<>>
    THEN IF \E i \in 1..Len(ops) : ops[i].kind = "LParen"
         THEN MathErr("PlaceholderError")
         ELSE MathOk(out \o Reverse(ops))
    ELSE LET token == Head(tokens)
         IN  IF token.kind = "Number"
             THEN YardLoop(Tail(tokens), Append(out, token), ops)
             ELSE IF token.kind \in ArithmeticKinds
             THEN LET k == PopCount(ops, token.kind)
                  IN  YardLoop(Tail(tokens), out \o Popped(ops, k),
                               Append(SubSeq(ops, 1, Len(ops) - k), token))
             ELSE IF token.kind = "LParen"
             THEN YardLoop(Tail(tokens), out, Append(ops, token))
             ELSE LET k == AboveParen(ops)
                  IN  IF k < 0 THEN MathErr("PlaceholderError")
                      ELSE YardLoop(Tail(tokens), out \o Popped(ops, k),
                                    SubSeq(ops, 1, Len(ops) - k - 1))

\* RpnExpression::shunting_yard(infix_tokens): the tokens in postfix order
shunting_yard(infix_tokens) == YardLoop(infix_tokens, <<>>, <<>>)

\* the token of one operator character
SymbolToken(c) ==
    CASE c = "+" -> RpnOp("Add") [] c = "-" -> RpnOp("Sub")
      [] c = "*" -> RpnOp("Mul") [] c = "/" -> RpnOp("Div")
      [] c = "^" -> RpnOp("Pow") [] c = "(" -> RpnOp("LParen")
      [] c = ")" -> RpnOp("RParen")

\* the digits at the start of s
RECURSIVE LeadingDigits(_)
LeadingDigits(s) ==
    IF s = <<>> \/ Head(s) \notin Digits THEN <<>>
    ELSE <<Head(s)>> \o LeadingDigits(Tail(s))

\* the loop of RpnExpression::tokenize_expression over the text left
RECURSIVE TokenizeLoop(_, _)
TokenizeLoop(s, tokens) ==
    IF s = <<>> THEN MathOk(tokens)
    ELSE IF Head(s) \in Digits
    THEN LET digits == LeadingDigits(s)
         IN  TokenizeLoop(SubSeq(s, Len(digits) + 1, Len(s)),
                          Append(tokens, Number(DecimalValue(digits))))
    ELSE IF Head(s) \in {"+", "-", "*", "/", "^", "(", ")"}
    THEN TokenizeLoop(Tail(s), Append(tokens, SymbolToken(Head(s))))
    ELSE MathErr("SymbolError")

\* RpnExpression::tokenize_expression(infix_expression)
tokenize_expression(infix_expression) == TokenizeLoop(infix_expression, <<>>)

\* evaluate_tokens with the infix tokens handed to resolve_rpn as they are
evaluate_tokens_unordered(infix_tokens) == resolve_rpn(infix_tokens)

\* evaluate_tokens(infix_tokens)
evaluate_tokens(infix_tokens) ==
    LET postfix_tokens == shunting_yard(infix_tokens)
    IN  IF ~postfix_tokens.ok THEN postfix_tokens
        ELSE resolve_rpn(postfix_tokens.val[1])

\* evaluate_string(infix_expression)
evaluate_string(infix_expression) ==
    LET infix_tokens == tokenize_expression(infix_expression)
    IN  IF ~infix_tokens.ok THEN infix_tokens
        ELSE evaluate_tokens(infix_tokens.val[1])

\* the tokens given to resolve_rpn one by one
RpnTokens ==
    {Number(1), Number(2)} \cup {RpnOp(k) : k \in ArithmeticKinds}
        \cup {RpnOp("LParen")}

\* the texts given to evaluate_string
Regression ==
    <<"3", "+", "4", "*", "2", "/", "(", "1", "-", "5", ")", "^", "2", "^", "3">>
Expressions ==
    {Regression,
     <<"1", "-", "2", "-", "3">>, <<"2", "^", "3", "^", "2">>,
     <<"1", "+", "2", "*", "3">>, <<"(", "1", "+", "2", ")", "*", "3">>,
     <<"8", "/", "4", "/", "2">>, <<"2", "*", "3", "^", "2">>,
     <<"1", "2", "-", "2">>, <<"1", "+">>, <<"(", "1">>, <<"1", ")">>,
     <<"1", "a">>, <<>>}

\* nothing has been evaluated yet
NoCalc ==
    [op |-> "none", input |-> <<>>, result |-> MathErr("none")]

InitMath == calc = NoCalc

MathFrame ==
    UNCHANGED <<dieVars, poolVars, trayVars, handlerVars, tokenVars>>

\* resolve_rpn(&postfix) on the postfix expression of the state before with
\* one more token
ResolveRpn ==
    /\ calc.op \in {"none", "resolve_rpn"}
    /\ Len(calc.input) < MaxRpn
    /\ \E token \in RpnTokens :
          calc' = [op |-> "resolve_rpn", input |-> Append(calc.input, token),
                   result |-> resolve_rpn(Append(calc.input, token))]
    /\ MathFrame

\* evaluate_string(text)
EvaluateString ==
    /\ calc.op = "none"
    /\ \E text \in Expressions :
          calc' = [op |-> "evaluate_string", input |-> text,
                   result |-> evaluate_string(text)]
    /\ MathFrame

\* ------------------------------------------------------------------------
\* Specifications
\* ------------------------------------------------------------------------
NextDie ==
    \/ \E sides \in 0..MaxSides : DieRoll(sides)
    \/ \E i \in 1..MaxDice : DieReroll(i)
    \/ \E i \in 1..MaxDice, value \in 0..MaxSet : DieSet(i, value)
    \/ \E i \in 1..MaxDice : DieExplode(i)
    \/ DieDrop

NextPool ==
    \/ \E number \in 0..MaxNumber, sides \in 0..MaxSides : PoolNew(number, sides)
    \/ \E face \in {1, U8Max} : PoolNewFull(face)
    \/ \E argument \in PoolArguments : PoolKeepHighest(argument)
    \/ \E argument \in PoolArguments : PoolKeepLowest(argument)
    \/ PoolRerollAll
    \/ \E n \in 0..MaxSides : PoolRerollN(n)
    \/ PoolFmt

NextTray ==
    \/ \E cmd \in Commands : ProcessRollCommand(cmd)
    \/ \E cmd \in Commands : AddRollFromString(cmd)
    \/ GetNewestRoll

NextLoops ==
    \/ \E number \in 1..MaxTokenDice, sides \in 1..MaxSides :
          ExplodeStart(number, sides)
    \/ ExplodeCheck
    \/ ExplodeRoll
    \/ \E number \in 1..MaxTokenDice, sides \in 1..MaxSides :
          RerollStart(number, sides)
    \/ RerollCheck
    \/ RerollRoll

NextTarget ==
    \/ \E self \in {"Success", "Botch"} :
          \E number \in 0..MaxTokenDice, sides \in 1..MaxSides :
             TargetApplyToDice(self, number, sides)
    \/ \E self \in {"Success", "Botch"} : TargetApplyToTarget(self)

InitAll ==
    /\ InitDie /\ InitPool /\ InitTray /\ InitHandlers /\ InitLoops
    /\ InitTarget /\ InitMath /\ InitTokens

SpecDie == InitAll /\ [][NextDie]_vars
\* the handlers called in one conversation
NextFair ==
    \/ \E p \in Tasks, text \in Texts : StartRoll(p, GuildMessage, text)
    \/ \E p \in Tasks, kind \in {"reroll", "verbose", "pastrolls"} :
          StartOther(p, kind, GuildMessage)
    \/ \E p \in Tasks : ExtractArguments(p)
    \/ \E p \in Tasks : AcquireDataWrite(p)
    \/ \E p \in Tasks : AcquireDataRead(p)
    \/ \E p \in Tasks : RollLockMap(p)
    \/ \E p \in Tasks : RollAdd(p)
    \/ \E p \in Tasks : RollReply(p)
    \/ \E p \in Tasks : RerollLockMap(p)
    \/ \E p \in Tasks : ReadLockMap(p)
    \/ \E p \in Tasks : ReplyLocked(p)
    \/ \E p \in Tasks : Cancel(p)

\* new_roll_output returns or unwinds: the task leaves its wait for the
\* nickname other than by being dropped
RollReturns(p) ==
    /\ pc[p] = "wait_nick"
    /\ \E at \in {"reply", "panicked"} : pc' = [pc EXCEPT ![p] = at]

\* the handler of task p is polled and gets on: it gets the lock it waits
\* for, or the call it waits for completes
Scheduled(p) ==
    \/ ExtractArguments(p)
    \/ AcquireDataWrite(p)
    \/ AcquireDataRead(p)
    \/ RollLockMap(p)
    \/ RollReturns(p)
    \/ RollReply(p)
    \/ RerollLockMap(p)
    \/ ReadLockMap(p)
    \/ ReplyLocked(p)

\* the handlers under the scheduling of the runtime: a task that can run is
\* polled, a network call that was started completes, and the tokio RwLock
\* and Mutex serve their waiters in turn, so a handler that waits for a lock
\* which is free again and again gets it
SpecFair ==
    /\ InitAll
    /\ [][NextFair]_vars
    /\ \A p \in Tasks : SF_pc(Scheduled(p))

SpecPool == InitAll /\ [][NextPool]_vars
SpecTray == InitAll /\ [][NextTray]_vars
Spec == InitAll /\ [][Next]_vars

SpecTarget == InitAll /\ [][NextTarget]_vars

NextTokens ==
    \/ TokenFromStr
    \/ TokenPool
    \/ TokenValue
    \/ KeepApply
    \/ ExplodeApply
    \/ MergeApply
    \/ ExplodeWithGeneration

SpecTokens == InitAll /\ [][NextTokens]_vars

NextMath == ResolveRpn \/ EvaluateString

SpecMath == InitAll /\ [][NextMath]_vars

\* a loop that has begun goes on running: its condition is evaluated and its
\* body executed as long as the condition holds
SpecLoops ==
    /\ InitAll
    /\ [][NextLoops]_vars
    /\ WF_vars(ExplodeCheck)
    /\ WF_vars(ExplodeRoll)
    /\ WF_vars(RerollCheck)
    /\ WF_vars(RerollRoll)

\* ------------------------------------------------------------------------
\* Properties of the Tray (SpecTray)
\* ------------------------------------------------------------------------

\* C1: after any sequence of roll commands, successful or failing, the Tray
\* holds at most CAPACITY rolls; a roll added to a full Tray removes the
\* oldest roll (the front) and the remaining rolls keep their order, with the
\* new roll last.
C1_TrayBounded ==
    /\ Len(rolls) <= CAPACITY
    /\ (trayOp.added # None /\ Len(trayOp.before) = CAPACITY)
          => rolls = Append(Tail(trayOp.before), trayOp.added[1])

\* a roll has been added to a Tray that was full
C1_Witness ==
    /\ trayOp.added # None
    /\ Len(trayOp.before) = CAPACITY
    /\ Len(rolls) = CAPACITY

\* C2: a roll command that fails leaves the history exactly as it was before
\* the command: nothing appended, nothing evicted, get_newest_roll unchanged.
C2_FailedCommandKeepsHistory ==
    (trayOp.op \in {"process", "add_string"} /\ trayOp.status = "err")
        => /\ rolls = trayOp.before
           /\ Tray_get_newest_roll(rolls) = Tray_get_newest_roll(trayOp.before)

\* C5: process_roll_command on a command without dice notation returns Ok
\* with the calculator's result or a failure text and leaves the history
\* unchanged.
C5_NoDiceNoHistoryChange ==
    (trayOp.op = "process" /\ ~IsMatch(trayOp.cmd))
        => /\ trayOp.status = "ok"
           /\ trayOp.text \in Calculator_evaluate(trayOp.cmd)
           /\ trayOp.added = None
           /\ rolls = trayOp.before

\* a command without dice notation has been processed on a non-empty Tray
C5_Witness ==
    /\ trayOp.op = "process"
    /\ ~IsMatch(trayOp.cmd)
    /\ trayOp.before # <<>>

\* C6: get_newest_roll returns the roll appended by the most recent
\* successful dice command, returns RetrieveError exactly when the history is
\* empty, and never changes the history.
C6_NewestIsLastSuccessful ==
    trayOp.op = "get"
        => /\ lastOk # None => (trayOp.status = "ok" /\ trayOp.got = lastOk)
           /\ trayOp.status = RetrieveError.status <=> trayOp.before = <<>>
           /\ rolls = trayOp.before

\* ------------------------------------------------------------------------
\* Properties of Pool::new (SpecPool) and of Die (SpecDie)
\* ------------------------------------------------------------------------

\* C9: for n and s in 1..255, Pool::new(n, s) yields a pool with exactly n
\* dice, number() = n, sides() = s, every die with sides s and 1 <= result <= s.
C9_PoolNewShape ==
    (poolOp.op = "new" /\ poolOp.number \in 1..U8Max /\ poolOp.sides \in 1..U8Max)
        => /\ poolOp.status = "ok"
           /\ pool # None
           /\ Len(Pool_dice(pool[1])) = poolOp.number
           /\ Pool_number(pool[1]) = poolOp.number
           /\ Pool_sides(pool[1]) = poolOp.sides
           /\ \A i \in 1..Len(Pool_dice(pool[1])) :
                 /\ Pool_dice(pool[1])[i].sides = poolOp.sides
                 /\ Pool_dice(pool[1])[i].result \in 1..poolOp.sides

\* a pool of several dice with several sides has been built
C9_Witness ==
    /\ poolOp.op = "new"
    /\ poolOp.status = "ok"
    /\ poolOp.number >= 2
    /\ poolOp.sides >= 2
    /\ pool # None
    /\ \E i \in 1..Len(Pool_dice(pool[1])) : Pool_dice(pool[1])[i].result >= 2

\* C10: every Die has 1 <= result <= sides after any sequence of roll,
\* reroll, set and explode, whatever argument is passed to set.
C10_DieInRange ==
    \A i \in 1..Len(dice) : dice[i].result \in 1..dice[i].sides

\* ------------------------------------------------------------------------
\* Properties of the handlers (Spec)
\* ------------------------------------------------------------------------

\* the rolls of every Tray of `map` are those of `base`; a Tray that `base`
\* does not have is empty
RollsAsIn(map, base) ==
    \A id \in DOMAIN map :
        map[id].rolls = IF id \in DOMAIN base THEN base[id].rolls ELSE <<>>

\* C3: when the task of a roll command is cancelled at a suspension point of
\* new_roll_output (waiting for the data lock, for the tray-map lock or for
\* the nickname), the Trays the other commands see carry no partial update:
\* nothing was evicted and nothing appended by the cancelled command.
C3_CancelLeavesNoPartialUpdate ==
    [][\A p \in Tasks :
          (/\ req[p].kind = "roll"
           /\ pc[p] \in {"wait_data", "wait_map", "wait_nick"}
           /\ pc'[p] = "cancelled")
             => RollsAsIn(trayMap', IF mapHolder = p THEN locked ELSE trayMap)]_vars

\* a roll command was cancelled while it waited for the nickname, and the
\* Tray of its conversation holds a roll
C3_Witness ==
    \E p \in Tasks :
        /\ pc[p] = "cancelled"
        /\ req[p].kind = "roll"
        /\ reply[p].at = "wait_nick"
        /\ make_tray_id(req[p].msg) \in DOMAIN trayMap
        /\ trayMap[make_tray_id(req[p].msg)].rolls # <<>>

\* task p is between acquiring and releasing the tray-map lock
InCriticalSection(p) == pc[p] \in {"wait_nick", "reply_locked"}

\* C4: at most one command at a time is between acquiring and releasing the
\* tray-map lock, whatever the conversations; every change of the tray map is
\* a step of the one task that holds the lock, so the changes happen in the
\* serial order of the lock.
C4_MapLockSerializes ==
    /\ [](/\ Cardinality({p \in Tasks : InCriticalSection(p)}) <= 1
          /\ \A p \in Tasks : InCriticalSection(p) => mapHolder = p)
    /\ [][trayMap' # trayMap
            => \E p \in Tasks :
                  /\ pc'[p] # pc[p]
                  /\ mapHolder = p \/ mapHolder' = p
                  /\ \A q \in Tasks \ {p} : ~InCriticalSection(q)]_vars

\* a roll command is inside the lock while a roll command of another
\* conversation waits
C4_Witness ==
    \E p, q \in Tasks :
        /\ pc[p] = "wait_nick"
        /\ req[q].kind = "roll"
        /\ pc[q] = "wait_data"
        /\ make_tray_id(req[p].msg) # make_tray_id(req[q].msg)

\* C7: reroll replaces the most recent roll of the conversation's Tray in
\* place: the number of stored rolls, the older rolls and the other Trays are
\* unchanged; without a Tray or with an empty history it answers that there
\* is nothing to reroll and changes neither the Tray nor the tray map.
C7_RerollInPlace ==
    [][\A p \in Tasks :
          (req[p].kind = "reroll" /\ pc[p] = "wait_map" /\ pc'[p] = "reply_locked")
             => LET id == make_tray_id(req[p].msg)
                IN IF id \in DOMAIN trayMap /\ trayMap[id].rolls # <<>>
                   THEN LET old == trayMap[id].rolls
                            new == trayMap'[id].rolls
                        IN /\ DOMAIN trayMap' = DOMAIN trayMap
                           /\ \A k \in DOMAIN trayMap \ {id} : trayMap'[k] = trayMap[k]
                           /\ Len(new) = Len(old)
                           /\ \A i \in 1..(Len(old) - 1) : new[i] = old[i]
                           /\ new[Len(new)].command = old[Len(old)].command
                           /\ reply'[p].status = "ok"
                           /\ reply'[p].shown = Some(new[Len(new)])
                   ELSE /\ reply'[p].status = "nothing_to_reroll"
                        /\ trayMap' = trayMap]_vars

\* a reroll has replaced the newest roll by a roll with other results
C7_Witness ==
    \E p \in Tasks :
        /\ req[p].kind = "reroll"
        /\ pc[p] = "reply_locked"
        /\ reply[p].status = "ok"
        /\ make_tray_id(req[p].msg) \in DOMAIN locked
        /\ locked[make_tray_id(req[p].msg)] # trayMap[make_tray_id(req[p].msg)]

\* C8: each conversation identity has at most one Tray, created by the first
\* roll command of the conversation and kept afterwards; a command leaves the
\* Tray of every other identity unchanged; verbose, pastrolls and reroll
\* never create a Tray.
C8_OneTrayPerConversation ==
    [][\A p \in Tasks :
          pc'[p] # pc[p]
             => LET id == make_tray_id(req[p].msg)
                    creating == /\ req[p].kind = "roll"
                                /\ pc[p] = "wait_map"
                                /\ pc'[p] = "wait_nick"
                IN /\ DOMAIN trayMap \subseteq DOMAIN trayMap'
                   /\ DOMAIN trayMap' \subseteq {make_tray_id(m) : m \in Messages}
                   /\ \A k \in DOMAIN trayMap' \ {id} :
                         k \in DOMAIN trayMap /\ trayMap'[k] = trayMap[k]
                   /\ ~creating => DOMAIN trayMap' = DOMAIN trayMap
                   /\ creating =>
                         /\ id \in DOMAIN trayMap'
                         /\ trayMap'[id] = IF id \in DOMAIN trayMap
                                           THEN trayMap[id] ELSE Tray_new]_vars

\* both conversations have a Tray with a roll, and a roll command has just
\* added a roll to one of them
C8_Witness ==
    \E p \in Tasks :
        /\ req[p].kind = "roll"
        /\ pc[p] = "reply"
        /\ reply[p].status = "ok"
        /\ DOMAIN trayMap = {make_tray_id(m) : m \in Messages}
        /\ \A id \in DOMAIN trayMap : trayMap[id].rolls # <<>>

\* ------------------------------------------------------------------------
\* Properties of the operations of a Pool (SpecPool)
\* ------------------------------------------------------------------------

\* the sum of the results counted face by face, in unbounded integers
RECURSIVE FaceSum(_, _)
FaceSum(ds, faces) ==
    IF faces = {} THEN 0
    ELSE LET face == CHOOSE v \in faces : TRUE
         IN  face * Cardinality({i \in 1..Len(ds) : ds[i].result = face})
                + FaceSum(ds, faces \ {face})

ExactSum(ds) == FaceSum(ds, {ds[i].result : i \in 1..Len(ds)})

IsAscending(ds) ==
    \A i \in 1..(Len(ds) - 1) : ds[i].result <= ds[i + 1].result

\* a and b hold the same dice, each as often in a as in b
SameDice(a, b) ==
    /\ Len(a) = Len(b)
    /\ \A d \in Range(a) \cup Range(b) :
          Cardinality({i \in 1..Len(a) : a[i] = d})
              = Cardinality({i \in 1..Len(b) : b[i] = d})

\* the pool holds as many dice as its number records
IsFresh(p) == Len(p.dice) = p.number

\* C12: for a pool of n dice as built and k <= n, the dice of
\* keep_lowest(n - k) followed by the dice of keep_highest(k) are the
\* ascending sort of the original dice: every original die once, none twice.
C12_KeepsPartition ==
    (/\ poolOp.op = "keep_highest"
     /\ poolOp.before # None
     /\ IsFresh(poolOp.before[1])
     /\ poolOp.arg <= poolOp.before[1].number)
        => LET original == poolOp.before[1]
               lows == Pool_keep_lowest(original, original.number - poolOp.arg)
           IN  /\ poolOp.status = "ok"
               /\ lows # {}
               /\ \A low \in lows :
                     LET joined == low.dice \o pool[1].dice
                     IN  /\ IsAscending(joined)
                         /\ SameDice(joined, original.dice)

\* a proper split (0 < k < n) of dice that were not in ascending order
C12_Witness ==
    /\ poolOp.op = "keep_highest"
    /\ poolOp.status = "ok"
    /\ poolOp.before # None
    /\ IsFresh(poolOp.before[1])
    /\ poolOp.arg > 0
    /\ poolOp.arg < poolOp.before[1].number
    /\ ~IsAscending(poolOp.before[1].dice)
    /\ Len(pool[1].dice) = poolOp.arg

Min(a, b) == IF a <= b THEN a ELSE b

\* C13: on any pool, also one that holds fewer dice than its number records,
\* keep_highest(N) and keep_lowest(N) succeed and return the top / bottom
\* min(N, count of dice) dice of the ascending sort.
C13_KeepClamps ==
    (poolOp.op \in {"keep_highest", "keep_lowest"} /\ poolOp.before # None)
        => LET sorted == SortUnstable(poolOp.before[1].dice)
               len == Len(sorted)
               kept == Min(poolOp.arg, len)
           IN  /\ poolOp.status = "ok"
               /\ pool[1].dice = IF poolOp.op = "keep_highest"
                                 THEN SubSeq(sorted, len - kept + 1, len)
                                 ELSE SubSeq(sorted, 1, kept)

\* C14: reroll_n rerolls the dice that equal the argument once and no other
\* die: a die that matched has any face of its sides afterwards (the argument
\* included), a die that did not match is as before, and the pool keeps its
\* number, its sides and the count and order of its dice.
C14_RerollOnce ==
    (poolOp.op = "reroll_n" /\ poolOp.before # None)
        => LET b == poolOp.before[1]
               a == pool[1]
           IN  /\ poolOp.status = "ok"
               /\ a.number = b.number
               /\ a.sides = b.sides
               /\ Len(a.dice) = Len(b.dice)
               /\ \A i \in 1..Len(b.dice) :
                     IF b.dice[i].result = poolOp.arg
                     THEN /\ a.dice[i].sides = b.dice[i].sides
                          /\ a.dice[i].result \in 1..b.dice[i].sides
                     ELSE a.dice[i] = b.dice[i]

\* one matching die landed on the argument again and stayed, another changed,
\* and a die that did not match was left alone
C14_Witness ==
    /\ poolOp.op = "reroll_n"
    /\ poolOp.status = "ok"
    /\ poolOp.before # None
    /\ LET b == poolOp.before[1]
           a == pool[1]
       IN  \E i, j, k \in 1..Len(b.dice) :
              /\ b.dice[i].result = poolOp.arg /\ a.dice[i].result = poolOp.arg
              /\ b.dice[j].result = poolOp.arg /\ a.dice[j].result # poolOp.arg
              /\ b.dice[k].result # poolOp.arg /\ a.dice[k] = b.dice[k]

\* ------------------------------------------------------------------------
\* Properties of the recursive operators (SpecLoops)
\* ------------------------------------------------------------------------

\* C15: Explode Recursive terminates, whatever the pool and the argument and
\* however the new dice land: an explosion that has begun comes to its end.
C15_ExplodeRecursiveTerminates ==
    (loop.op = "explode" /\ loop.pc = "check")
        ~> (loop.op = "explode" /\ loop.pc = "done")

\* C16: Reroll Recursive terminates, whatever the pool and the argument, and
\* when it has ended no die of the pool matches the argument.
C16_RerollRecursiveTerminates ==
    /\ (loop.op = "reroll" /\ loop.pc = "check")
          ~> (loop.op = "reroll" /\ loop.pc = "done")
    /\ [](loop.op = "reroll" /\ loop.pc = "done"
            => \A i \in 1..Len(loop.pool.dice) :
                  ~ArgMatches(loop.pool.dice[i], loop.arg))

\* the dice of p with a result of at least / at most t
DiceOver(p, t) == {i \in 1..Len(p.dice) : p.dice[i].result >= t}
DiceUnder(p, t) == {i \in 1..Len(p.dice) : p.dice[i].result <= t}

\* C17: applied to an operand that is not a Target token, Success with a
\* single threshold t yields sux = the number of dice with result >= t, and
\* Botch yields sux = minus the number of dice with result <= t.
C17_SingleCounts ==
    (/\ targetOp.op # "none"
     /\ targetOp.operand.kind = "Dice"
     /\ targetOp.argument.kind = "Single")
    => /\ targetOp.status = "ok"
       /\ targetOp.result[1].sux =
             IF targetOp.op = "Success"
             THEN Cardinality(DiceOver(targetOp.operand.pool, targetOp.argument.arg[1]))
             ELSE 0 - Cardinality(DiceUnder(targetOp.operand.pool, targetOp.argument.arg[1]))

\* Botch with a single threshold has counted one die of two
C17_Witness ==
    /\ targetOp.op = "Botch"
    /\ targetOp.operand.kind = "Dice"
    /\ targetOp.argument.kind = "Single"
    /\ Len(targetOp.operand.pool.dice) = 2
    /\ targetOp.status = "ok"
    /\ targetOp.result[1].sux = 0 - 1

\* C18: applied to a resolved Target token, a Target token yields the
\* operand's sux plus its own contribution (what it yields on the same pool
\* as a Dice token), for single thresholds and for arrays.
C18_ChainAddsUp ==
    (/\ targetOp.op # "none"
     /\ targetOp.operand.kind \in {"Success", "Botch"}
     /\ targetOp.status = "ok")
    => \E own \in Target_apply(targetOp.op, DiceToken(targetOp.operand.pool),
                                targetOp.argument) :
          targetOp.result[1].sux = targetOp.operand.sux + own.sux

\* the sum over the dice ds of the entry of `table` that belongs to each
\* result when entry i belongs to face shift + i; the other faces count zero
RECURSIVE TableSum(_, _, _)
TableSum(ds, table, shift) ==
    IF ds = <<>> THEN 0
    ELSE (IF Head(ds).result - shift \in 1..Len(table)
          THEN table[Head(ds).result - shift] ELSE 0)
            + TableSum(Tail(ds), table, shift)

\* C19: Botch with an array of length L on a pool with S sides gives entry i
\* to face i, counts zero for the faces above L, yields sux = minus the sum
\* of the entries of the dice, and does not fail, for every L and result.
C19_BotchArrayLowest ==
    (/\ targetOp.op = "Botch"
     /\ targetOp.operand.kind = "Dice"
     /\ targetOp.argument.kind = "Array")
    => /\ targetOp.status = "ok"
       /\ targetOp.result[1].sux =
             0 - TableSum(targetOp.operand.pool.dice, targetOp.argument.arg, 0)

\* the table of length S aligned to the highest faces: entry i of `table`
\* belongs to face S - L + i
HighestTable(S, table) ==
    [f \in 1..S |-> IF f - (S - Len(table)) \in 1..Len(table)
                    THEN table[f - (S - Len(table))] ELSE 0]

\* C20: Success with an array of length L on a pool with S sides gives the
\* table to the highest faces, for L <= S and for L > S; sux is the sum of
\* the entries of the dice and the stored argument is the padded table of
\* length S.
C20_SuccessArrayHighest ==
    (/\ targetOp.op = "Success"
     /\ targetOp.operand.kind = "Dice"
     /\ targetOp.argument.kind = "Array")
    => /\ targetOp.status = "ok"
       /\ targetOp.result[1].sux =
             TableSum(targetOp.operand.pool.dice, targetOp.argument.arg,
                      targetOp.operand.pool.sides - Len(targetOp.argument.arg))
       /\ targetOp.result[1].arg =
             Some(Array(HighestTable(targetOp.operand.pool.sides,
                                     targetOp.argument.arg)))

\* the tokens of a term, and the term that ends at the last token of a
\* postfix expression
RECURSIVE TermSize(_)
TermSize(term) ==
    IF term[1] = "Number" THEN 1 ELSE 1 + TermSize(term[2]) + TermSize(term[3])
RECURSIVE TermAtEnd(_)
TermAtEnd(tokens) ==
    LET n == Len(tokens)
    IN  IF tokens[n].kind = "Number" THEN F64(tokens[n].val)
        ELSE LET right == TermAtEnd(SubSeq(tokens, 1, n - 1))
                 left == TermAtEnd(SubSeq(tokens, 1, n - 1 - TermSize(right)))
             IN  F64Op(tokens[n].kind, left, right)

\* the values on the stack after the first k tokens: numbers less operators
StackDepth(tokens, k) ==
    Cardinality({i \in 1..k : tokens[i].kind = "Number"})
        - Cardinality({i \in 1..k : tokens[i].kind # "Number"})

\* every token is a number or an arithmetic operator, every operator finds
\* two operands, and exactly one value remains
WellFormedPostfix(tokens) ==
    /\ \A i \in 1..Len(tokens) :
          /\ tokens[i].kind \in ArithmeticKinds \cup {"Number"}
          /\ tokens[i].kind \in ArithmeticKinds => StackDepth(tokens, i - 1) >= 2
    /\ StackDepth(tokens, Len(tokens)) = 1

\* C21: resolve_rpn returns Ok(v) exactly when every token is a number or an
\* arithmetic operator, every operator finds two operands and one value
\* remains, v being left op right with the right operand popped first; in
\* every other case it returns PlaceholderError.
C21_ResolveRpn ==
    calc.op = "resolve_rpn"
    => IF WellFormedPostfix(calc.input)
       THEN calc.result = MathOk(TermAtEnd(calc.input))
       ELSE calc.result = MathErr("PlaceholderError")

\* 2 1 2 - / has been resolved to 2 / (1 - 2)
C21_Witness ==
    /\ calc.op = "resolve_rpn"
    /\ calc.input = <<Number(2), Number(1), Number(2), RpnOp("Sub"), RpnOp("Div")>>
    /\ calc.result = MathOk(F64Op("Div", F64(2), F64Op("Sub", F64(1), F64(2))))

\* the exact value of a term as a fraction <<numerator, denominator>>, for
\* terms with whole exponents and no division by zero
RECURSIVE Fraction(_)
Fraction(term) ==
    IF term[1] = "Number" THEN <<term[2], 1>>
    ELSE LET l == Fraction(term[2])
             r == Fraction(term[3])
         IN  CASE term[1] = "Add" -> <<l[1] * r[2] + r[1] * l[2], l[2] * r[2]>>
               [] term[1] = "Sub" -> <<l[1] * r[2] - r[1] * l[2], l[2] * r[2]>>
               [] term[1] = "Mul" -> <<l[1] * r[1], l[2] * r[2]>>
               [] term[1] = "Div" -> <<l[1] * r[2], l[2] * r[1]>>
               [] term[1] = "Pow" -> <<l[1] ^ r[1], l[2] ^ r[1]>>

\* the grouping that precedence and associativity give to each text
Grouped(text) ==
    CASE text = Regression ->
            F64Op("Add", F64(3),
                F64Op("Div", F64Op("Mul", F64(4), F64(2)),
                    F64Op("Pow", F64Op("Sub", F64(1), F64(5)),
                                 F64Op("Pow", F64(2), F64(3)))))
      [] text = <<"1", "-", "2", "-", "3">> ->
            F64Op("Sub", F64Op("Sub", F64(1), F64(2)), F64(3))
      [] text = <<"8", "/", "4", "/", "2">> ->
            F64Op("Div", F64Op("Div", F64(8), F64(4)), F64(2))
      [] text = <<"2", "^", "3", "^", "2">> ->
            F64Op("Pow", F64(2), F64Op("Pow", F64(3), F64(2)))
      [] text = <<"1", "+", "2", "*", "3">> ->
            F64Op("Add", F64(1), F64Op("Mul", F64(2), F64(3)))
      [] text = <<"2", "*", "3", "^", "2">> ->
            F64Op("Mul", F64(2), F64Op("Pow", F64(3), F64(2)))
      [] text = <<"(", "1", "+", "2", ")", "*", "3">> ->
            F64Op("Mul", F64Op("Add", F64(1), F64(2)), F64(3))
GroupedTexts ==
    {Regression, <<"1", "-", "2", "-", "3">>, <<"8", "/", "4", "/", "2">>,
     <<"2", "^", "3", "^", "2">>, <<"1", "+", "2", "*", "3">>,
     <<"2", "*", "3", "^", "2">>, <<"(", "1", "+", "2", ")", "*", "3">>}

\* C22: infix expressions are evaluated with ^ above * and / above + and -,
\* ^ grouping to the right, the others to the left, parentheses grouping;
\* 3+4*2/(1-5)^2^3 is 3 + ((4*2) / ((1-5)^(2^3))) = 24577/8192, which is
\* 3.0001220703125.
C22_Precedence ==
    (calc.op = "evaluate_string" /\ calc.input \in GroupedTexts)
    => /\ calc.result = MathOk(Grouped(calc.input))
       /\ calc.input = Regression =>
             Fraction(calc.result.val[1])[1] * 8192
                = 24577 * Fraction(calc.result.val[1])[2]

\* the regression expression has been evaluated to a value
C22_Witness ==
    /\ calc.op = "evaluate_string"
    /\ calc.input = Regression
    /\ calc.result.ok

\* C23: for every command with a dice expression NdS, N = 0, S = 0 and N or
\* S above 255 included, processing ends in a returned result or a returned
\* error; it never reaches a panic.
C23_CommandNeverPanics ==
    (trayOp.op \in {"process", "add_string"} /\ IsMatch(trayOp.cmd))
    => trayOp.status \in {"ok", "err"}

\* C24: for every unresolved token variant, as from_str produces it, pool()
\* and value() return NotResolvedError or MissingPoolError; none of them
\* panics or returns a pool or a value.
C24_UnresolvedFails ==
    (tokenOp.op \in {"pool", "value"} /\ ~tokenOp.resolved)
    => /\ tokenOp.status = "err"
       /\ tokenOp.result.err \in {"NotResolvedError", "MissingPoolError"}

\* the kind of RollValue a resolved token has
ValueKind(token) ==
    CASE token.variant = "Target" -> "Successes"
      [] token.variant = "Genesys" -> "Genesys"
      [] OTHER -> "Numeric"

\* C25: Merge::value of two resolved operands succeeds with a value of
\* their kind when both have the same kind of roll value, and returns a
\* kind-mismatch error when the kinds differ
C25_MergeKinds ==
    (/\ tokenOp.op = "value"
     /\ tokenOp.token.variant = "Merge"
     /\ tokenOp.token.left # None
     /\ tokenOp.token.right # None
     /\ tokenOp.token.left[1].res # <<>>
     /\ tokenOp.token.right[1].res # <<>>)
    => IF ValueKind(tokenOp.token.left[1]) = ValueKind(tokenOp.token.right[1])
       THEN /\ tokenOp.status = "ok"
            /\ tokenOp.result.value[1].kind = ValueKind(tokenOp.token.left[1])
       ELSE /\ tokenOp.status = "err"
            /\ tokenOp.result.err = "KindMismatchError"

\* a merge of a success-count and a symbol-tally operand has answered
\* value()
C25_Witness ==
    /\ tokenOp.op = "value"
    /\ tokenOp.token.variant = "Merge"
    /\ tokenOp.token.left # None
    /\ tokenOp.token.right # None
    /\ tokenOp.token.left[1].res # <<>>
    /\ tokenOp.token.right[1].res # <<>>
    /\ tokenOp.token.left[1].variant = "Target"
    /\ tokenOp.token.right[1].variant = "Genesys"
    /\ tokenOp.result.err = "KindMismatchError"

\* C26: pool() of Explode Once gives MissingPoolError for no generation,
\* the base pool for one, the base pool followed by the second generation
\* for two and the FBomb error for more; apply of Explode Once leaves at
\* most two generations
C26_ExplodeOnce ==
    /\ (/\ tokenOp.op = "pool"
        /\ tokenOp.token.variant = "Explode"
        /\ tokenOp.token.mode = "Once")
       => CASE Len(tokenOp.token.res) = 0 ->
                 /\ tokenOp.status = "err"
                 /\ tokenOp.result.err = "MissingPoolError"
            [] Len(tokenOp.token.res) = 1 ->
                 /\ tokenOp.status = "ok"
                 /\ tokenOp.result.pool[1] = tokenOp.token.res[1]
            [] Len(tokenOp.token.res) = 2 ->
                 /\ tokenOp.status = "ok"
                 /\ tokenOp.result.pool[1].dice =
                       tokenOp.token.res[1].dice \o tokenOp.token.res[2].dice
            [] OTHER ->
                 /\ tokenOp.status = "err"
                 /\ tokenOp.result.err = "FBomb"
    /\ (/\ tokenOp.op = "apply"
        /\ tokenOp.token.variant = "Explode"
        /\ tokenOp.token.mode = "Once"
        /\ tokenOp.status = "ok")
       => Len(tokenOp.token.res) \in 1..2

\* pool() of an Explode Once token of more than two generations has
\* answered
C26_Witness ==
    /\ tokenOp.op = "pool"
    /\ tokenOp.token.variant = "Explode"
    /\ tokenOp.token.mode = "Once"
    /\ Len(tokenOp.token.res) > 2
    /\ tokenOp.result.err = "FBomb"

\* an Explode Once token was applied and a die exploded
C26_WitnessApply ==
    /\ tokenOp.op = "apply"
    /\ tokenOp.token.variant = "Explode"
    /\ tokenOp.token.mode = "Once"
    /\ Len(tokenOp.token.res) = 2

\* C27: Keep High and Low given an array return ArgumentError unless the
\* array has exactly one element, and then keep what they keep for that
\* number; Keep Exact takes a number or any array and keeps exactly the
\* dice whose result is in it
C27_KeepArguments ==
    (tokenOp.op = "apply" /\ tokenOp.token.variant = "Keep")
    => LET argument == tokenOp.argument[1]
           p == tokenOp.operand[1]
       IN IF tokenOp.token.mode = "Exact"
          THEN /\ tokenOp.status = "ok"
               /\ tokenOp.token.res[1].dice =
                     SelectSeq(p.dice,
                               LAMBDA d : \E i \in 1..Len(argument.arg) :
                                             d.result = argument.arg[i])
          ELSE IF argument.kind = "Array" /\ Len(argument.arg) # 1
          THEN /\ tokenOp.status = "err"
               /\ tokenOp.result.err = "ArgumentError"
          ELSE /\ tokenOp.status = "ok"
               /\ tokenOp.token.res[1] \in
                     IF tokenOp.token.mode = "High"
                     THEN Pool_keep_highest(p, argument.arg[1])
                     ELSE Pool_keep_lowest(p, argument.arg[1])

\* Keep High was given an array of two numbers
C27_Witness ==
    /\ tokenOp.op = "apply"
    /\ tokenOp.token.variant = "Keep"
    /\ tokenOp.token.mode = "High"
    /\ tokenOp.argument # None
    /\ tokenOp.argument[1].kind = "Array"
    /\ Len(tokenOp.argument[1].arg) = 2
    /\ tokenOp.result.err = "ArgumentError"

\* C28: every pool built by Pool::new, keep_highest or keep_lowest has at
\* least one die, and formatting a pool never reads past its dice
C28_PoolNeverEmpty ==
    /\ pool # None => Len(pool[1].dice) >= 1
    /\ poolOp.op = "fmt" => poolOp.status = "ok"

\* task p holds the data lock, for writing or for reading
HoldsData(p) == dataWriter = p \/ p \in dataReaders

\* a step of the handler of task p other than being dropped
HandlerStep(p) ==
    \/ ExtractArguments(p)
    \/ AcquireDataWrite(p)
    \/ AcquireDataRead(p)
    \/ RollLockMap(p)
    \/ RollAdd(p)
    \/ RollReply(p)
    \/ RerollLockMap(p)
    \/ ReadLockMap(p)
    \/ ReplyLocked(p)

\* C29: a handler that asks for the data lock holds no lock, a handler that
\* asks for the tray-map mutex holds the data lock and not the mutex, and
\* the holder of the mutex holds the data lock; whenever a handler is under
\* way some handler can take a step; and under fair scheduling every
\* handler that holds a lock gives it up and every handler ends
C29_LockOrder ==
    /\ [](\A p \in Tasks :
             /\ pc[p] \in {"extract", "wait_data"} \cup Finished
                   => ~HoldsData(p) /\ mapHolder # p
             /\ pc[p] = "wait_map" => HoldsData(p) /\ mapHolder # p
             /\ mapHolder = p => HoldsData(p))
    /\ []((\E p \in Tasks : pc[p] \notin Finished)
             => \E p \in Tasks : ENABLED HandlerStep(p))
    /\ \A p \in Tasks :
          /\ (HoldsData(p) \/ mapHolder = p) ~> (~HoldsData(p) /\ mapHolder # p)
          /\ (pc[p] \notin Finished) ~> (pc[p] \in Finished)

\* a handler holds both locks while another waits for the data lock
C29_Witness ==
    \E p, q \in Tasks :
        /\ pc[p] = "reply_locked"
        /\ dataWriter = p
        /\ mapHolder = p
        /\ pc[q] = "wait_data"

\* C30: a roll command that takes the tray-map lock when its conversation
\* already has a Tray leaves the tray map as it is; while it waits inside
\* the lock the Tray of its conversation is the one it found (or the empty
\* one it created); and its roll is appended to what that Tray holds after
\* the Tray's own eviction, so the roll of an earlier command is never
\* dropped by a fresh Tray put in its place
C30_FirstRollsShareTray ==
    /\ [](\A p \in Tasks :
             pc[p] = "wait_nick"
                => LET id == make_tray_id(req[p].msg)
                   IN /\ id \in DOMAIN trayMap
                      /\ trayMap[id] = IF id \in DOMAIN locked
                                       THEN locked[id] ELSE Tray_new)
    /\ [][\A p \in Tasks :
             LET id == make_tray_id(req[p].msg)
             IN /\ (/\ req[p].kind = "roll"
                     /\ pc[p] = "wait_map"
                     /\ pc'[p] = "wait_nick"
                     /\ id \in DOMAIN trayMap)
                       => trayMap' = trayMap
                /\ (/\ pc[p] = "wait_nick"
                     /\ pc'[p] = "reply"
                     /\ reply'[p].status = "ok")
                       => /\ DOMAIN trayMap' = DOMAIN trayMap
                          /\ trayMap'[id].rolls =
                                Append(Tray_evict(trayMap[id].rolls),
                                       reply'[p].shown[1])]_vars

\* two roll commands of one conversation are under way; the first created
\* the Tray and has its roll in it, the second holds the lock and found
\* that Tray
C30_Witness ==
    \E p, q \in Tasks :
        /\ p # q
        /\ req[p].kind = "roll"
        /\ req[q].kind = "roll"
        /\ make_tray_id(req[p].msg) = make_tray_id(req[q].msg)
        /\ pc[p] = "reply"
        /\ reply[p].status = "ok"
        /\ pc[q] = "wait_nick"
        /\ locked[make_tray_id(req[q].msg)].rolls = <<reply[p].shown[1]>>

====
